---- MODULE Spec2Model ----
(***************************************************************************)
(* Group call session orchestrator (calls_group_call.cpp): the lifecycle   *)
(* state machine, the join / rejoin protocol, self roster deltas, the      *)
(* connectivity callbacks and the broadcast part tasks.                    *)
(*                                                                         *)
(* Every handler of GroupCall runs to completion on the owner (main)       *)
(* thread, so a handler is one action.  Handlers call each other (a join   *)
(* response drains the queued self deltas, a self delta may rejoin or hang *)
(* up ...), so each handler is written as an operator from a session       *)
(* record to a session record and an action commits the resulting record   *)
(* to the variables.                                                       *)
(***************************************************************************)
EXTENDS Integers, Sequences, FiniteSets, TLC

\* ------------------------------------------------------------------ bounds
\* Source ids the media engine produces are 1..MaxSsrc; the server may name
\* one more in a self delta (a source id of another device).
MaxSsrc == 1
\* Asynchronous work outstanding at once: join payload requests, join, leave
\* and check requests in flight, and self deltas waiting in the queue.
MaxPending == 2
\* Broadcast part tasks the media engine requests.
MaxTasks == 2

Ssrcs == 1 .. MaxSsrc

DeltaSsrcs == 1 .. MaxSsrc + 1

Tasks == 1 .. MaxTasks

States == {"Waiting", "Joining", "Connecting", "Joined",
           "HangingUp", "FailedHangingUp", "Ended", "Failed"}

MuteStates == {"Active", "Muted", "PushToTalk", "ForceMuted", "RaisedHand"}

InstanceModes == {"None", "Rtc", "Stream"}

InstanceStates == {"Connected", "Disconnected", "TransitionToRtc"}

\* Error types of a failed phone.joinGroupCall the handler tells apart.
JoinErrors == {"GROUPCALL_SSRC_DUPLICATE_MUCH", "GROUPCALL_ANONYMOUS_FORBIDDEN",
               "GROUPCALL_PARTICIPANTS_TOO_MUCH", "GROUPCALL_FORBIDDEN", "OTHER"}

\* Kinds of phone.editGroupCallParticipant sent for the local participant.
SendUpdateTypes == {"Mute", "RaiseHand", "VideoMuted"}

\* ---------------------------------------------------------------- variables
VARIABLES
    state,                  \* _state
    mySsrc,                 \* _mySsrc (0: none)
    mySsrcs,                \* _mySsrcs
    instance,               \* _instance != nullptr
    instanceMode,           \* _instanceMode
    instanceState,          \* _instanceState
    instanceTransitioning,  \* _instanceTransitioning
    scheduleDate,           \* _scheduleDate != 0
    muted,                  \* _muted
    initialMuteStateSent,   \* _initialMuteStateSent
    hadJoinedState,         \* _hadJoinedState
    payloadRequests,        \* emitJoinPayload callbacks not yet run
    joinRequests,           \* phone.joinGroupCall requests in flight
    leaveRequests,          \* phone.leaveGroupCall requests in flight
    updateMuteRequest,      \* _updateMuteRequestId: "none" for 0, else the type
                            \* of the request it names
    editRequests,           \* phone.editGroupCallParticipant requests of
                            \* sendSelfUpdate in flight
    checkJoinedTimer,       \* _checkJoinedTimer.isActive()
    checkRequests,          \* phone.checkGroupCall requests in flight
    queuedSelfUpdates,      \* _queuedSelfUpdates
    toast,                  \* message shown by the last handler
    events,                 \* what the last handler did, in order: controller
                            \* destroyed, delegate notified, edit-self requests
    lastOp,                 \* what the last handler was: "joinDone", "joinFail",
                            \* "selfUpdate", "rejoin" (one that only calls rejoin()),
                            \* "local" (a local mute operation), "checkJoined",
                            \* "checkDone", "checkFail", "rejoinAs", "finish",
                            \* "connected",
                            \* "other"
    pushToTalkCancelTimer,  \* _pushToTalkCancelTimer.isActive()
    videoStreamSsrcs,       \* _videoStreamSsrcs
    videoMuted,             \* _videoMuted
    videoStreamLarge,       \* _videoStreamLarge, 0 for none
    videoStreamPinned,      \* _videoStreamPinned, 0 for none
    real,                   \* lookupReal() finds the call of this session
    participants,           \* real->participants(): per source id whether a
                            \* participant has it, videoMuted, speaking, sounding
    lastSpoke,              \* _lastSpoke: per source id whether it has an entry
                            \* and how long ago its anything / voice times are
    lastSpokeCheckTimer,    \* _lastSpokeCheckTimer: active, period, time left
    applyLastSpokeCalls,    \* per source id, the applyLastSpoke calls the last
                            \* handler made for it
    notifications,          \* groupCallFinished / groupCallFailed calls made to the
                            \* delegate so far
    partStatus,             \* per task, the status of the part that finish()
                            \* passed to done(), "none" before
    muteAfter,              \* empty, or the flags of the first self delta applied
                            \* to a live session with the mute state that resulted
    created,                \* LoadPartTask objects the engine has requested
    taskDone,               \* LoadPartTask::_done is set (not null)
    taskMutex,              \* who holds LoadPartTask::_mutex
    donePc,                 \* where LoadPartTask::done() is, on the owner thread
    doneSaw,                \* what done() read from _done
    cancelPc,               \* where LoadPartTask::cancel() is, on an engine thread
    mainQueue,              \* calls posted to the owner thread by crl::on_main
    requests,               \* tasks with an upload.getFile request in flight
    broadcastParts,         \* tasks in _broadcastParts
    callbackCalls,          \* how many times the completion callback ran
    cancelTook,             \* cancel() cleared _done
    raced                   \* done() and cancel() contended for _mutex

vars == <<state, mySsrc, mySsrcs, instance, instanceMode, instanceState,
          instanceTransitioning, scheduleDate, muted,
          initialMuteStateSent, hadJoinedState, payloadRequests,
          joinRequests, leaveRequests, updateMuteRequest, editRequests,
          checkJoinedTimer,
          checkRequests, queuedSelfUpdates, toast, events, lastOp,
          pushToTalkCancelTimer, muteAfter, notifications, partStatus,
          videoStreamSsrcs, videoMuted, videoStreamLarge, videoStreamPinned,
          real, participants, lastSpoke, lastSpokeCheckTimer, applyLastSpokeCalls,
          created, taskDone, taskMutex, donePc, doneSaw, cancelPc, mainQueue,
          requests, broadcastParts, callbackCalls, cancelTook, raced>>

sessionVars ==
    <<state, mySsrc, mySsrcs, instance, instanceMode, instanceState,
      instanceTransitioning, scheduleDate, muted,
      initialMuteStateSent, hadJoinedState, payloadRequests,
      joinRequests, leaveRequests, updateMuteRequest, editRequests,
      checkJoinedTimer,
      checkRequests, queuedSelfUpdates, toast, events, lastOp,
      pushToTalkCancelTimer>>

\* What the handlers of the join protocol and of the part tasks leave alone.
videoVars ==
    <<videoStreamSsrcs, videoMuted, videoStreamLarge, videoStreamPinned,
      real, participants>>

spokeVars == <<lastSpoke, lastSpokeCheckTimer, applyLastSpokeCalls>>

otherVars == <<muteAfter, videoVars, spokeVars, notifications, partStatus>>

taskVars ==
    <<created, taskDone, taskMutex, donePc, doneSaw, cancelPc, mainQueue,
      requests, broadcastParts, callbackCalls, cancelTook, raced>>

\* The session as one record: what a handler reads and what it returns.
Cur ==
    [state |-> state, mySsrc |-> mySsrc, mySsrcs |-> mySsrcs,
     instance |-> instance, instanceMode |-> instanceMode,
     instanceState |-> instanceState,
     instanceTransitioning |-> instanceTransitioning,
     scheduleDate |-> scheduleDate, muted |-> muted,
     initialMuteStateSent |-> initialMuteStateSent,
     hadJoinedState |-> hadJoinedState,
     payloadRequests |-> payloadRequests, joinRequests |-> joinRequests,
     leaveRequests |-> leaveRequests,
     updateMuteRequest |-> updateMuteRequest, editRequests |-> editRequests,
     checkJoinedTimer |-> checkJoinedTimer, checkRequests |-> checkRequests,
     queuedSelfUpdates |-> queuedSelfUpdates,
     pushToTalkCancelTimer |-> pushToTalkCancelTimer,
     toast |-> "none", events |-> <<>>]

InFlight(s) == s.payloadRequests + Len(s.joinRequests)

Pending(s) ==
    InFlight(s) + Len(s.leaveRequests) + s.checkRequests
        + Len(s.queuedSelfUpdates)

\* The session variables take a handler's result.
CommitSession(s, op) ==
    /\ state' = s.state
    /\ mySsrc' = s.mySsrc
    /\ mySsrcs' = s.mySsrcs
    /\ instance' = s.instance
    /\ instanceMode' = s.instanceMode
    /\ instanceState' = s.instanceState
    /\ instanceTransitioning' = s.instanceTransitioning
    /\ scheduleDate' = s.scheduleDate
    /\ muted' = s.muted
    /\ initialMuteStateSent' = s.initialMuteStateSent
    /\ hadJoinedState' = s.hadJoinedState
    /\ payloadRequests' = s.payloadRequests
    /\ joinRequests' = s.joinRequests
    /\ leaveRequests' = s.leaveRequests
    /\ updateMuteRequest' = s.updateMuteRequest
    /\ editRequests' = s.editRequests
    /\ checkJoinedTimer' = s.checkJoinedTimer
    /\ checkRequests' = s.checkRequests
    /\ queuedSelfUpdates' = s.queuedSelfUpdates
    /\ toast' = s.toast
    /\ events' = s.events
    /\ lastOp' = op
    /\ pushToTalkCancelTimer' = s.pushToTalkCancelTimer

\* A handler's result is committed when it stays within the bounds.
Commit(s, op) ==
    /\ Pending(s) <= MaxPending
    /\ CommitSession(s, op)
    /\ UNCHANGED <<taskVars, otherVars>>

\* The same with room for one more request or queued self delta.
CommitWide(s, op) ==
    /\ Pending(s) <= MaxPending + 1
    /\ InFlight(s) <= MaxPending
    /\ CommitSession(s, op)
    /\ UNCHANGED <<taskVars, otherVars>>

\* ------------------------------------------------------------ state machine
\* destroyController(): _instance.reset().
DestroyController(s) ==
    [s EXCEPT !.instance = FALSE, !.events = Append(@, "destroyController")]

\* setState(state) that refuses a change only in Failed.
SetStateFromFailedHangingUp(s, st) ==
    IF s.state = "Failed" THEN s
    ELSE IF s.state = st THEN s
    ELSE LET s1 == [s EXCEPT !.state = st]
             s2 == IF st \in {"Ended", "Failed"}
                   THEN DestroyController(s1) ELSE s1
         IN  IF st = "Ended"
             THEN [s2 EXCEPT !.events = Append(@, "groupCallFinished")]
             ELSE IF st = "Failed"
             THEN [s2 EXCEPT !.events = Append(@, "groupCallFailed")]
             ELSE IF st = "Connecting" /\ ~s2.checkJoinedTimer
             THEN [s2 EXCEPT !.checkJoinedTimer = TRUE]
             ELSE s2

\* setState(state) notifying the delegate of Ended / Failed before the
\* controller is destroyed.
SetStateNotifyFirst(s, st) ==
    IF s.state = "Failed" THEN s
    ELSE IF s.state = "FailedHangingUp" /\ st # "Failed" THEN s
    ELSE IF s.state = st THEN s
    ELSE LET s1 == [s EXCEPT !.state = st]
         IN  IF st = "Ended"
             THEN DestroyController(
                    [s1 EXCEPT !.events = Append(@, "groupCallFinished")])
             ELSE IF st = "Failed"
             THEN DestroyController(
                    [s1 EXCEPT !.events = Append(@, "groupCallFailed")])
             ELSE IF st = "Connecting" /\ ~s1.checkJoinedTimer
             THEN [s1 EXCEPT !.checkJoinedTimer = TRUE]
             ELSE s1

\* setState(state): refused in Failed, refused in FailedHangingUp unless the
\* new state is Failed, nothing to do when unchanged; Ended / Failed destroy
\* the controller and then notify the delegate (groupCallFinished /
\* groupCallFailed); Connecting arms the check-joined timer when it is idle.
SetState(s, st) ==
    IF s.state = "Failed" THEN s
    ELSE IF s.state = "FailedHangingUp" /\ st # "Failed" THEN s
    ELSE IF s.state = st THEN s
    ELSE LET s1 == [s EXCEPT !.state = st]
             s2 == IF st \in {"Ended", "Failed"}
                   THEN DestroyController(s1) ELSE s1
         IN  IF st = "Ended"
             THEN [s2 EXCEPT !.events = Append(@, "groupCallFinished")]
             ELSE IF st = "Failed"
             THEN [s2 EXCEPT !.events = Append(@, "groupCallFailed")]
             ELSE IF st = "Connecting" /\ ~s2.checkJoinedTimer
             THEN [s2 EXCEPT !.checkJoinedTimer = TRUE]
             ELSE s2

\* ensureControllerCreated(): creates _instance when there is none.
EnsureControllerCreated(s) == [s EXCEPT !.instance = TRUE]

\* setInstanceMode(mode).
SetInstanceMode(s, mode) == [s EXCEPT !.instanceMode = mode]

\* rejoin() without its state check.
RejoinUnguarded(s) ==
    LET s1 == [s EXCEPT !.mySsrc = 0, !.initialMuteStateSent = FALSE]
        s2 == SetState(s1, "Joining")
        s3 == EnsureControllerCreated(s2)
        s4 == SetInstanceMode(s3, "None")
    IN  [s4 EXCEPT !.payloadRequests = @ + 1]

\* rejoin(as): honoured in Joining, Joined and Connecting only; clears the
\* local source id, moves to Joining, makes sure the engine exists, resets the
\* connection mode and asks the engine for a join payload.  The identity
\* joined as (_joinAs) decides nothing here and is not kept.
\* rejoin() that keeps the local source id.
RejoinKeepsSsrc(s) ==
    IF s.state \notin {"Joining", "Joined", "Connecting"} THEN s
    ELSE LET s1 == [s EXCEPT !.initialMuteStateSent = FALSE]
             s2 == SetState(s1, "Joining")
             s3 == EnsureControllerCreated(s2)
             s4 == SetInstanceMode(s3, "None")
         IN  [s4 EXCEPT !.payloadRequests = @ + 1]

\* rejoin() without the reset of the connection mode.
RejoinKeepsMode(s) ==
    IF s.state \notin {"Joining", "Joined", "Connecting"} THEN s
    ELSE LET s1 == [s EXCEPT !.mySsrc = 0, !.initialMuteStateSent = FALSE]
             s2 == SetState(s1, "Joining")
             s3 == EnsureControllerCreated(s2)
         IN  [s3 EXCEPT !.payloadRequests = @ + 1]

Rejoin(s) ==
    IF s.state \notin {"Joining", "Joined", "Connecting"} THEN s
    ELSE LET s1 == [s EXCEPT !.mySsrc = 0, !.initialMuteStateSent = FALSE]
             s2 == SetState(s1, "Joining")
             s3 == EnsureControllerCreated(s2)
             s4 == SetInstanceMode(s3, "None")
         IN  [s4 EXCEPT !.payloadRequests = @ + 1]

\* finish(type) sending the leave request whatever the local source id is.
FinishAlwaysLeaves(s, type) ==
    LET finalState == IF type = "Ended" THEN "Ended" ELSE "Failed"
        hangupState == IF type = "Ended" THEN "HangingUp" ELSE "FailedHangingUp"
    IN  IF s.state \in {"HangingUp", "FailedHangingUp", "Ended", "Failed"}
        THEN s
        ELSE [SetState(s, hangupState)
                EXCEPT !.leaveRequests = Append(@, finalState)]

\* finish(type): nothing when already hanging up or finished; without a local
\* source id straight to the final state; otherwise to the hanging-up state
\* with one phone.leaveGroupCall request, whose answer sets the final state.
Finish(s, type) ==
    LET finalState == IF type = "Ended" THEN "Ended" ELSE "Failed"
        hangupState == IF type = "Ended" THEN "HangingUp" ELSE "FailedHangingUp"
    IN  IF s.state \in {"HangingUp", "FailedHangingUp", "Ended", "Failed"}
        THEN s
        ELSE IF s.mySsrc = 0 THEN SetState(s, finalState)
        ELSE LET s1 == SetState(s, hangupState)
             IN  [s1 EXCEPT !.leaveRequests = Append(@, finalState)]

\* hangup(): finish(FinishType::Ended).
Hangup(s) == Finish(s, "Ended")

\* ------------------------------------------------------------- mute state
\* sendSelfUpdate(type) that sends without cancelling the earlier request.
SendSelfUpdateNoCancel(s, type) ==
    [s EXCEPT !.updateMuteRequest = type, !.editRequests = @ + 1,
              !.events = Append(@, type)]

\* sendSelfUpdate(type): cancels the request behind _updateMuteRequestId (no
\* request when the id is 0) and sends a new phone.editGroupCallParticipant,
\* remembering its id.
SendSelfUpdate(s, type) ==
    LET cancelled == IF s.updateMuteRequest = "none" THEN 0 ELSE 1
    IN  [s EXCEPT !.updateMuteRequest = type,
                  !.editRequests = @ - cancelled + 1,
                  !.events = Append(@, type)]

\* maybeSendMutedUpdate(previous) sending every change.
MaybeSendMutedUpdateAny(s, previous) ==
    IF previous # s.muted THEN SendSelfUpdate(s, "Mute") ELSE s

\* maybeSendMutedUpdate(previous): only Active <-> Muted / PushToTalk and
\* ForceMuted <-> RaisedHand are sent.
MaybeSendMutedUpdate(s, previous) ==
    LET now == s.muted
    IN  IF \/ (previous = "Active" /\ now = "Muted")
           \/ (now = "Active" /\ previous \in {"Muted", "PushToTalk"})
        THEN SendSelfUpdate(s, "Mute")
        ELSE IF \/ (now = "ForceMuted" /\ previous = "RaisedHand")
                \/ (now = "RaisedHand" /\ previous = "ForceMuted")
        THEN SendSelfUpdate(s, "RaiseHand")
        ELSE s

\* The observer of _muted set up in the constructor: runs on every change of
\* the value with the previous and the new mute state.
MutedChanged(s, previous) ==
    IF s.mySsrc # 0 /\ (~s.initialMuteStateSent \/ s.muted = "Active")
    THEN MaybeSendMutedUpdate(
            [s EXCEPT !.initialMuteStateSent = TRUE], previous)
    ELSE s

\* setMuted(mute), the permission request granted at once: assigns _muted,
\* which runs the observer when the value changes.
SetMuted(s, mute) ==
    IF s.muted = mute THEN s
    ELSE MutedChanged([s EXCEPT !.muted = mute], s.muted)

\* setMutedAndUpdate(mute): Active is sent by the observer of _muted, other
\* values from here once the initial mute state has been sent.
SetMutedAndUpdate(s, mute) ==
    LET was  == s.muted
        send == s.initialMuteStateSent /\ mute # "Active"
        s1   == SetMuted(s, mute)
    IN  IF send THEN MaybeSendMutedUpdate(s1, was) ELSE s1

\* pushToTalkCancel(), also run by _pushToTalkCancelTimer.
PushToTalkCancel(s) ==
    LET s1 == [s EXCEPT !.pushToTalkCancelTimer = FALSE]
    IN  IF s1.muted = "PushToTalk" THEN SetMuted(s1, "Muted") ELSE s1

\* pushToTalk(pressed, delay).
PushToTalk(s, pressed, delay) ==
    IF s.muted \in {"ForceMuted", "RaisedHand", "Active"} THEN s
    ELSE IF pressed
    THEN SetMuted([s EXCEPT !.pushToTalkCancelTimer = FALSE], "PushToTalk")
    ELSE IF delay THEN [s EXCEPT !.pushToTalkCancelTimer = TRUE]
    ELSE PushToTalkCancel(s)

\* checkFirstTimeJoined().
\* notifyAboutAllowedToSpeak() without the check of _hadJoinedState.
NotifyAboutAllowedToSpeakAlways(s) ==
    [s EXCEPT !.events = Append(@, "allowedToSpeak")]

NotifyAboutAllowedToSpeak(s) ==
    IF ~s.hadJoinedState THEN s
    ELSE [s EXCEPT !.events = Append(@, "allowedToSpeak")]

CheckFirstTimeJoined(s) ==
    IF s.hadJoinedState \/ s.state # "Joined" THEN s
    ELSE [s EXCEPT !.hadJoinedState = TRUE]

\* ------------------------------------------------------------- self deltas
\* A groupCallParticipant entry about the local participant, with the flag
\* combinations applySelfUpdate tells apart.
SelfDeltas ==
    {d \in [source : DeltaSsrcs, left : BOOLEAN, muted : BOOLEAN,
            canSelfUnmute : BOOLEAN, raiseHand : BOOLEAN] :
        /\ d.left => (~d.muted /\ d.canSelfUnmute)
        /\ d.raiseHand => (d.muted /\ ~d.canSelfUnmute)
        /\ ~d.muted => d.canSelfUnmute}

\* The flags of a self delta applySelfUpdate decides the mute state by.
DeltaFlags ==
    {f \in [muted : BOOLEAN, canSelfUnmute : BOOLEAN, raiseHand : BOOLEAN] :
        /\ f.raiseHand => (f.muted /\ ~f.canSelfUnmute)
        /\ ~f.muted => f.canSelfUnmute}

FlagsOf(d) ==
    [muted |-> d.muted, canSelfUnmute |-> d.canSelfUnmute,
     raiseHand |-> d.raiseHand]

\* Self deltas of a participant present in the call under one of the
\* session's own source ids.
OwnSelfDeltas == {d \in SelfDeltas : ~d.left /\ d.source \in Ssrcs}

\* applySelfUpdate(data) hanging up on every not-left delta of another source.
ApplySelfUpdateNoHistory(s, d) ==
    IF d.left
    THEN IF d.source = s.mySsrc
         THEN Rejoin(SetState(s, "Joining"))
         ELSE s
    ELSE IF d.source # s.mySsrc
    THEN Hangup([s EXCEPT !.mySsrc = 0])
    ELSE s

\* applySelfUpdate(data) taking every left delta for an eviction.
ApplySelfUpdateAnyLeft(s, d) ==
    IF d.left THEN Rejoin(SetState(s, "Joining"))
    ELSE IF d.source # s.mySsrc
    THEN IF d.source \notin s.mySsrcs
         THEN Hangup([s EXCEPT !.mySsrc = 0])
         ELSE s
    ELSE s

\* applySelfUpdate(data).
\* applySelfUpdate(data) without the rejoin of the stream mode.
ApplySelfUpdateNoStream(s, d) ==
    IF d.left
    THEN IF d.source = s.mySsrc
         THEN Rejoin(SetState(s, "Joining"))
         ELSE s
    ELSE IF d.source # s.mySsrc
    THEN IF d.source \notin s.mySsrcs
         THEN Hangup([s EXCEPT !.mySsrc = 0])
         ELSE s
    ELSE IF d.muted /\ ~d.canSelfUnmute
    THEN SetMuted(s, IF d.raiseHand THEN "RaisedHand" ELSE "ForceMuted")
    ELSE IF s.muted \in {"ForceMuted", "RaisedHand"}
    THEN LET s1 == SetMuted(s, "Muted")
         IN  IF ~s1.instanceTransitioning
             THEN NotifyAboutAllowedToSpeak(s1) ELSE s1
    ELSE IF d.muted /\ s.muted # "Muted"
    THEN SetMuted(s, "Muted")
    ELSE s

ApplySelfUpdate(s, d) ==
    IF d.left
    THEN IF d.source = s.mySsrc
         THEN Rejoin(SetState(s, "Joining"))
         ELSE s
    ELSE IF d.source # s.mySsrc
    THEN IF d.source \notin s.mySsrcs
         THEN Hangup([s EXCEPT !.mySsrc = 0])
         ELSE s
    ELSE IF d.muted /\ ~d.canSelfUnmute
    THEN SetMuted(s, IF d.raiseHand THEN "RaisedHand" ELSE "ForceMuted")
    ELSE IF s.instanceMode = "Stream"
    THEN Rejoin(SetState(s, "Joining"))
    ELSE IF s.muted \in {"ForceMuted", "RaisedHand"}
    THEN LET s1 == SetMuted(s, "Muted")
         IN  IF ~s1.instanceTransitioning
             THEN NotifyAboutAllowedToSpeak(s1) ELSE s1
    ELSE IF d.muted /\ s.muted # "Muted"
    THEN SetMuted(s, "Muted")
    ELSE s

\* handleUpdate(updateGroupCallParticipants) for an entry about the local
\* participant: applied when Joined or Connecting, queued otherwise.
HandleUpdate(s, d) ==
    IF s.state \in {"Joined", "Connecting"}
    THEN ApplySelfUpdate(s, d)
    ELSE [s EXCEPT !.queuedSelfUpdates = Append(@, d)]

\* applyQueuedSelfUpdates() taking the entry queued last first.
ApplyQueuedSelfUpdatesLifo(s) ==
    IF s.queuedSelfUpdates # <<>> /\ s.state \in {"Joined", "Connecting"}
    THEN LET n  == Len(s.queuedSelfUpdates)
             s1 == [s EXCEPT !.queuedSelfUpdates = SubSeq(@, 1, n - 1)]
             s2 == ApplySelfUpdate(s1, s.queuedSelfUpdates[n])
         IN  IF s2.queuedSelfUpdates # <<>>
                    /\ s2.state \in {"Joined", "Connecting"}
             THEN LET m == Len(s2.queuedSelfUpdates)
                  IN  ApplySelfUpdate(
                        [s2 EXCEPT !.queuedSelfUpdates = SubSeq(@, 1, m - 1)],
                        s2.queuedSelfUpdates[m])
             ELSE s2
    ELSE s

\* applyQueuedSelfUpdates(): while the queue is not empty and the state is
\* Joined or Connecting, takes the front entry and applies it.
RECURSIVE ApplyQueuedSelfUpdates(_)
ApplyQueuedSelfUpdates(s) ==
    IF s.queuedSelfUpdates # <<>> /\ s.state \in {"Joined", "Connecting"}
    THEN LET update == Head(s.queuedSelfUpdates)
             s1 == [s EXCEPT !.queuedSelfUpdates = Tail(@)]
         IN  ApplyQueuedSelfUpdates(ApplySelfUpdate(s1, update))
    ELSE s

\* -------------------------------------------------------- join protocol
RemoveAt(seq, i) == SubSeq(seq, 1, i - 1) \o SubSeq(seq, i + 1, Len(seq))

\* The emitJoinPayload callback, run on the owner thread: sends
\* phone.joinGroupCall with the payload's ssrc and the current mute state.
JoinPayloadReady(s, ssrc) ==
    [s EXCEPT !.payloadRequests = @ - 1,
              !.joinRequests = Append(@, [ssrc |-> ssrc, wasMuteState |-> s.muted])]

\* Self deltas that leave the mute state alone while it is Muted: the ones
\* that say nothing of a mute.
PlainSelfDeltas == {d \in SelfDeltas : d.canSelfUnmute /\ ~d.muted}

\* Self deltas the updates of a join response may carry: none, or one entry
\* of a participant present in the call (not left).
CarriedUpdates(D) == {<<>>} \cup {<<d>> : d \in {e \in D : ~e.left}}

\* applyUpdates(updates) of the join response: its self deltas reach
\* handleUpdate before the handler goes on.
RECURSIVE ApplyUpdates(_, _)
ApplyUpdates(s, updates) ==
    IF updates = <<>> THEN s
    ELSE ApplyUpdates(HandleUpdate(s, Head(updates)), Tail(updates))

\* The done handler of phone.joinGroupCall choosing Joined whatever the engine
\* reports and keeping no history of own source ids.
JoinDoneHandlerJoined(s, i, updates) ==
    LET r  == s.joinRequests[i]
        s0 == [s EXCEPT !.joinRequests = RemoveAt(@, i)]
        s1 == [s0 EXCEPT !.mySsrc = r.ssrc]
        s2 == SetState(s1, "Joined")
        s3 == MaybeSendMutedUpdate(s2, r.wasMuteState)
        s4 == ApplyUpdates(s3, updates)
        s5 == ApplyQueuedSelfUpdates(s4)
        s6 == CheckFirstTimeJoined(s5)
    IN  SendSelfUpdate(s6, "VideoMuted")

\* The done handler of phone.joinGroupCall for the i-th request in flight.
JoinDoneHandler(s, i, updates) ==
    LET r  == s.joinRequests[i]
        s0 == [s EXCEPT !.joinRequests = RemoveAt(@, i)]
        s1 == [s0 EXCEPT !.mySsrc = r.ssrc, !.mySsrcs = @ \cup {r.ssrc}]
        s2 == SetState(s1, IF s1.instanceState = "Disconnected"
                           THEN "Connecting" ELSE "Joined")
        s3 == MaybeSendMutedUpdate(s2, r.wasMuteState)
        s4 == ApplyUpdates(s3, updates)
        s5 == ApplyQueuedSelfUpdates(s4)
        s6 == CheckFirstTimeJoined(s5)
    IN  SendSelfUpdate(s6, "VideoMuted")

\* The message the fail handler of phone.joinGroupCall shows for an error.
JoinErrorToast(type) ==
    IF type = "GROUPCALL_ANONYMOUS_FORBIDDEN" THEN "lng_group_call_no_anonymous"
    ELSE IF type = "GROUPCALL_PARTICIPANTS_TOO_MUCH" THEN "lng_group_call_too_many"
    ELSE IF type = "GROUPCALL_FORBIDDEN" THEN "lng_group_not_accessible"
    ELSE "ServerError"

\* The fail handler of phone.joinGroupCall retrying on every error.
JoinFailHandlerRetry(s, i, type) ==
    Rejoin([s EXCEPT !.joinRequests = RemoveAt(@, i)])

\* The fail handler of phone.joinGroupCall hanging up on every error.
JoinFailHandlerHangup(s, i, type) ==
    [Hangup([s EXCEPT !.joinRequests = RemoveAt(@, i)])
        EXCEPT !.toast = JoinErrorToast(type)]

\* The fail handler of phone.joinGroupCall for the i-th request in flight.
JoinFailHandler(s, i, type) ==
    LET s0 == [s EXCEPT !.joinRequests = RemoveAt(@, i)]
    IN  IF type = "GROUPCALL_SSRC_DUPLICATE_MUCH"
        THEN Rejoin(s0)
        ELSE [Hangup(s0) EXCEPT !.toast = JoinErrorToast(type)]

\* ------------------------------------------------------ other handlers
\* join(inputCall): Waiting when scheduled, else Joining and rejoin().
Join(s) ==
    LET s1 == SetState(s, IF s.scheduleDate THEN "Waiting" ELSE "Joining")
    IN  IF s.scheduleDate THEN s1 ELSE Rejoin(s1)

\* setScheduledDate(date): joins when a scheduled date is cleared.
SetScheduledDate(s, date) ==
    LET was == s.scheduleDate
        s1  == [s EXCEPT !.scheduleDate = date]
    IN  IF was /\ ~date THEN Join(s1) ELSE s1

\* rejoinAs(info): nothing for the same identity (sameJoinAs: info.joinAs ==
\* _joinAs); a scheduled call only saves the identity; otherwise
\* setState(Joining) and rejoin(info.joinAs).
RejoinAs(s, sameJoinAs) ==
    IF sameJoinAs THEN s
    ELSE IF s.scheduleDate THEN s
    ELSE Rejoin(SetState(s, "Joining"))

\* rejoinWithHash(hash): rejoins when the hash is not empty and the local
\* participant is force-muted or has the hand raised.
RejoinWithHash(s, hashEmpty) ==
    IF ~hashEmpty /\ s.muted \in {"ForceMuted", "RaisedHand"}
    THEN Rejoin(s)
    ELSE s

\* handlePossibleDiscarded(groupCallDiscarded) for this call.
HandlePossibleDiscarded(s) == Hangup([s EXCEPT !.mySsrc = 0])

\* handlePossibleCreateOrJoinResponse(updateGroupCallConnection): the
\* "stream" flag of the parameters selects Stream over Rtc.
HandleConnectionParams(s, stream) ==
    SetInstanceMode(s, IF stream THEN "Stream" ELSE "Rtc")

\* setInstanceConnected(networkState).
\* setInstanceConnected(networkState) switching to Joined or Connecting
\* from any state.
SetInstanceConnectedAnyState(s, isConnected, inTransit) ==
    LET newState == IF ~isConnected THEN "Disconnected"
                    ELSE IF inTransit THEN "TransitionToRtc"
                    ELSE "Connected"
        connected == newState # "Disconnected"
    IN  IF s.instanceState = newState /\ s.instanceTransitioning = inTransit
        THEN s
        ELSE LET s1 == [s EXCEPT !.instanceTransitioning = inTransit,
                                 !.instanceState = newState]
                 s2 == SetState(s1, IF connected THEN "Joined"
                                    ELSE "Connecting")
             IN  IF ~s2.hadJoinedState /\ s2.state = "Joined"
                 THEN CheckFirstTimeJoined(s2)
                 ELSE s2

SetInstanceConnected(s, isConnected, inTransit) ==
    LET newState == IF ~isConnected THEN "Disconnected"
                    ELSE IF inTransit THEN "TransitionToRtc"
                    ELSE "Connected"
        connected == newState # "Disconnected"
    IN  IF s.instanceState = newState /\ s.instanceTransitioning = inTransit
        THEN s
        ELSE LET s1 == [s EXCEPT !.instanceTransitioning = inTransit,
                                 !.instanceState = newState]
                 nowCanSpeak == /\ connected
                                /\ s.instanceTransitioning
                                /\ ~inTransit
                                /\ s.muted = "Muted"
                 s2 == IF s1.state = "Connecting" /\ connected
                       THEN SetState(s1, "Joined")
                       ELSE IF s1.state = "Joined" /\ ~connected
                       THEN SetState(s1, "Connecting")
                       ELSE s1
                 s3 == IF nowCanSpeak
                       THEN NotifyAboutAllowedToSpeak(s2) ELSE s2
             IN  IF ~s3.hadJoinedState /\ s3.state = "Joined"
                 THEN CheckFirstTimeJoined(s3)
                 ELSE s3

\* checkJoined(), run by _checkJoinedTimer (a single-shot timer).
CheckJoined(s) ==
    LET s1 == [s EXCEPT !.checkJoinedTimer = FALSE]
    IN  IF s1.state # "Connecting" \/ s1.mySsrc = 0 THEN s1
        ELSE [s1 EXCEPT !.checkRequests = @ + 1]

\* The done handler of phone.checkGroupCall that never arms the timer.
CheckJoinedDoneNoTimer(s, found) ==
    LET s1 == [s EXCEPT !.checkRequests = @ - 1]
    IN  IF ~found THEN Rejoin(s1) ELSE s1

\* The done handler of phone.checkGroupCall that never rejoins.
CheckJoinedDoneNoRejoin(s, found) ==
    LET s1 == [s EXCEPT !.checkRequests = @ - 1]
    IN  IF s1.state = "Connecting"
        THEN [s1 EXCEPT !.checkJoinedTimer = TRUE]
        ELSE s1

\* The done handler of phone.checkGroupCall: found says whether the answer
\* holds _mySsrc.
CheckJoinedDone(s, found) ==
    LET s1 == [s EXCEPT !.checkRequests = @ - 1]
    IN  IF ~found THEN Rejoin(s1)
        ELSE IF s1.state = "Connecting"
        THEN [s1 EXCEPT !.checkJoinedTimer = TRUE]
        ELSE s1

\* The fail handler of phone.checkGroupCall.
CheckJoinedFail(s) == Rejoin([s EXCEPT !.checkRequests = @ - 1])

\* The done handler of the edit request sent by sendSelfUpdate.
SendSelfUpdateDone(s) ==
    [s EXCEPT !.updateMuteRequest = "none", !.editRequests = @ - 1]

\* The fail handler of the edit request sent by sendSelfUpdate.
SendSelfUpdateFail(s, forbidden) ==
    LET s1 == [s EXCEPT !.updateMuteRequest = "none", !.editRequests = @ - 1]
    IN  IF forbidden THEN Rejoin(s1) ELSE s1

\* The fail handler of the edit request sent by editParticipant: rejoin() on
\* GROUPCALL_FORBIDDEN.  editParticipant itself changes no field of the
\* session, so its requests in flight are not counted.
EditParticipantFail(s, forbidden) == IF forbidden THEN Rejoin(s) ELSE s

\* The answer (done or fail) to the first phone.leaveGroupCall in flight.
LeaveAnswered(s) ==
    SetState([s EXCEPT !.leaveRequests = Tail(@)], Head(s.leaveRequests))

\* ------------------------------------------------------ video streams
\* Source ids of participants that may stream video.
VideoSsrcs == 1 .. MaxSsrc + 1

\* No participant of the roster has the source id.
Absent ==
    [present |-> FALSE, videoMuted |-> FALSE, speaking |-> FALSE,
     sounding |-> FALSE]

\* A participant of the roster as the video code reads it.
Participant ==
    [present : {TRUE}, videoMuted : BOOLEAN, speaking : BOOLEAN,
     sounding : BOOLEAN]

InRoster(v, ssrc) == ssrc \in VideoSsrcs /\ v.participants[ssrc].present

IsSpeaking(v, ssrc) == InRoster(v, ssrc) /\ v.participants[ssrc].speaking

IsSounding(v, ssrc) == InRoster(v, ssrc) /\ v.participants[ssrc].sounding

\* The video fields as one value.
VideoCur ==
    [videoStreamSsrcs |-> videoStreamSsrcs, videoMuted |-> videoMuted,
     videoStreamLarge |-> videoStreamLarge,
     videoStreamPinned |-> videoStreamPinned, real |-> real,
     participants |-> participants]

\* Nobody streams, the call is not known yet and its roster is empty when
\* the session is constructed.
VideoInit ==
    /\ real = FALSE
    /\ videoStreamSsrcs = {}
    /\ videoMuted = {}
    /\ videoStreamLarge = 0
    /\ videoStreamPinned = 0
    /\ participants = [x \in VideoSsrcs |-> Absent]

\* The least element of a non-empty set of source ids, 0 for the empty set:
\* the first match of a loop over a flat_set.
First(S) == IF S = {} THEN 0 ELSE CHOOSE x \in S : \A y \in S : x <= y

\* streamsVideo(ssrc).
StreamsVideo(v, ssrc) ==
    ssrc # 0 /\ ssrc \in v.videoStreamSsrcs /\ ssrc \notin v.videoMuted

\* chooseLargeVideoSsrc() that ignores who speaks and who sounds.
ChooseLargeVideoSsrcAny(v) ==
    LET seen == {x \in v.videoStreamSsrcs :
                    x \notin v.videoMuted /\ InRoster(v, x)}
    IN  IF ~v.real THEN 0 ELSE First(seen)

\* chooseLargeVideoSsrc(): 0 if lookupReal() finds no call; else over
\* _videoStreamSsrcs, in ascending order, the
\* first speaking participant, else the first sounding, else the first.
ChooseLargeVideoSsrc(v) ==
    LET seen == {x \in v.videoStreamSsrcs :
                    x \notin v.videoMuted /\ InRoster(v, x)}
        voice == First({x \in seen : IsSpeaking(v, x)})
        anything == First({x \in seen : IsSounding(v, x)})
    IN  IF ~v.real THEN 0
        ELSE IF voice # 0 THEN voice
        ELSE IF anything # 0 THEN anything
        ELSE First(seen)

\* setVideoStreams(ssrcs): sources are only ever added to _videoStreamSsrcs.
SetVideoStreams(v, ssrcs) ==
    LET large == v.videoStreamLarge
        gone  == large # 0 /\ large \notin ssrcs
        newLarge == IF gone THEN 0 ELSE large
        v1 == [v EXCEPT !.videoStreamPinned = IF gone THEN 0 ELSE @,
                        !.videoStreamSsrcs = @ \cup ssrcs]
    IN  IF newLarge = 0
        THEN [v1 EXCEPT !.videoStreamLarge = ChooseLargeVideoSsrc(v1)]
        ELSE v1

\* pinVideoStream(ssrc).
PinVideoStream(v, ssrc) ==
    IF ssrc = 0 THEN [v EXCEPT !.videoStreamPinned = 0]
    ELSE IF StreamsVideo(v, ssrc)
    THEN [v EXCEPT !.videoStreamPinned = ssrc, !.videoStreamLarge = ssrc]
    ELSE v

\* The participantUpdated handler choosing the large source anew after
\* every update.
ParticipantUpdatedRecomputes(v, ssrc, was, now) ==
    LET wasVideoMutedSsrc == IF was.present /\ was.videoMuted THEN ssrc ELSE 0
        nowVideoMutedSsrc == IF now.present /\ now.videoMuted THEN ssrc ELSE 0
        changed  == wasVideoMutedSsrc # nowVideoMutedSsrc
        removedM == IF changed /\ wasVideoMutedSsrc # 0
                    THEN v.videoMuted \ {ssrc} ELSE v.videoMuted
        addsNow  == changed /\ nowVideoMutedSsrc # 0 /\ ssrc \notin removedM
        newMuted == IF addsNow THEN removedM \cup {ssrc} ELSE removedM
        v1 == [v EXCEPT !.videoMuted = newMuted,
                        !.participants = [@ EXCEPT ![ssrc] = now]]
    IN  [v1 EXCEPT !.videoStreamLarge = ChooseLargeVideoSsrc(v1)]

\* The participantUpdated handler for the participant with source id ssrc
\* changing from was to now (Absent or a Participant); the roster already
\* holds now.
ParticipantUpdated(v, ssrc, was, now) ==
    LET wasVideoMutedSsrc == IF was.present /\ was.videoMuted THEN ssrc ELSE 0
        nowVideoMutedSsrc == IF now.present /\ now.videoMuted THEN ssrc ELSE 0
        changed  == wasVideoMutedSsrc # nowVideoMutedSsrc
        removedM == IF changed /\ wasVideoMutedSsrc # 0
                    THEN v.videoMuted \ {ssrc} ELSE v.videoMuted
        addsNow  == changed /\ nowVideoMutedSsrc # 0 /\ ssrc \notin removedM
        newMuted == IF addsNow THEN removedM \cup {ssrc} ELSE removedM
        v1 == [v EXCEPT !.videoMuted = newMuted,
                        !.participants = [@ EXCEPT ![ssrc] = now]]
        large1 == IF addsNow /\ ssrc \in v.videoStreamSsrcs
                     /\ v.videoStreamLarge = ssrc
                  THEN 0 ELSE v.videoStreamLarge
        nowSpeaking == now.present /\ now.speaking
        nowSounding == now.present /\ now.sounding
        wasSpeaking == was.present /\ was.speaking
        wasSounding == was.present /\ was.sounding
        withVideo == {x \in VideoSsrcs : IsSounding(v1, x) /\ StreamsVideo(v1, x)}
        bestWithVideoSsrc ==
            IF \E x \in withVideo : IsSpeaking(v1, x)
                  /\ \A y \in withVideo : y < x => ~IsSpeaking(v1, y)
            THEN First({x \in withVideo : IsSpeaking(v1, x)})
            ELSE First(withVideo)
        large2 ==
            IF nowSpeaking = wasSpeaking /\ nowSounding = wasSounding THEN large1
            ELSE IF v1.videoStreamPinned # 0 THEN large1
            ELSE IF (wasSpeaking \/ wasSounding) /\ ssrc = large1
            THEN IF bestWithVideoSsrc # 0 THEN bestWithVideoSsrc ELSE large1
            ELSE IF /\ nowSpeaking \/ nowSounding
                    /\ ssrc # large1
                    /\ StreamsVideo(v1, ssrc)
            THEN IF \/ nowSpeaking /\ ~IsSpeaking(v1, large1)
                    \/ nowSounding /\ ~IsSounding(v1, large1)
                 THEN ssrc ELSE large1
            ELSE large1
        newLarge == IF large2 = 0 THEN ChooseLargeVideoSsrc(v1) ELSE large2
    IN  [v1 EXCEPT !.videoStreamLarge = newLarge]

\* ------------------------------------------------- last spoke times
\* kCheckLastSpokeInterval, in milliseconds.
kCheckLastSpokeInterval == 1000

\* The clock is followed in steps of a sixth of the interval.
TimeStep == kCheckLastSpokeInterval \div 6

\* Source ids the engine reports audio levels for.
SpokeSsrcs == 1 .. MaxSsrc

\* now - when.anything one step later; everything beyond the interval is
\* kept as interval + 1.
OlderAnything(age) ==
    IF age + TimeStep > kCheckLastSpokeInterval
    THEN kCheckLastSpokeInterval + 1
    ELSE age + TimeStep

\* now - when.voice one step later; everything from a third of the interval
\* on, a voice time of 0 included, is kept as that third.
OlderVoice(age) ==
    IF age + TimeStep >= kCheckLastSpokeInterval \div 3
    THEN kCheckLastSpokeInterval \div 3
    ELSE age + TimeStep

NoEntry == [in |-> FALSE, anything |-> 0, voice |-> 0]

NoCalls == [x \in SpokeSsrcs |-> 0]

\* The last spoke fields as one value; the calls are those of one handler.
SpokeCur ==
    [lastSpoke |-> lastSpoke, lastSpokeCheckTimer |-> lastSpokeCheckTimer,
     applyLastSpokeCalls |-> NoCalls]

SpokeInit ==
    /\ lastSpoke = [x \in SpokeSsrcs |-> NoEntry]
    /\ lastSpokeCheckTimer = [active |-> FALSE, period |-> 0, left |-> 0]
    /\ applyLastSpokeCalls = NoCalls

\* _lastSpokeCheckTimer.callEach(period).
CallEach(period) == [active |-> TRUE, period |-> period, left |-> period]

\* checkLastSpoke() that keeps every entry.
CheckLastSpokeKeepsAll(k) ==
    LET hasRecent == \E x \in SpokeSsrcs : k.lastSpoke[x].in
    IN  [k EXCEPT
            !.applyLastSpokeCalls =
                [x \in SpokeSsrcs |-> IF k.lastSpoke[x].in THEN @[x] + 1 ELSE @[x]],
            !.lastSpokeCheckTimer =
                IF ~hasRecent THEN [active |-> FALSE, period |-> 0, left |-> 0]
                ELSE IF ~@.active THEN CallEach(kCheckLastSpokeInterval \div 3)
                ELSE @]

\* checkLastSpoke(), the roster of lookupReal() being there: an entry stays
\* if when.anything + kCheckLastSpokeInterval >= now and is erased otherwise,
\* applyLastSpoke is called for each entry either way.
CheckLastSpoke(k) ==
    LET recent(x) == /\ k.lastSpoke[x].in
                     /\ k.lastSpoke[x].anything <= kCheckLastSpokeInterval
        hasRecent == \E x \in SpokeSsrcs : recent(x)
    IN  [k EXCEPT
            !.lastSpoke =
                [x \in SpokeSsrcs |-> IF recent(x) THEN @[x] ELSE NoEntry],
            !.applyLastSpokeCalls =
                [x \in SpokeSsrcs |-> IF k.lastSpoke[x].in THEN @[x] + 1 ELSE @[x]],
            !.lastSpokeCheckTimer =
                IF ~hasRecent THEN [active |-> FALSE, period |-> 0, left |-> 0]
                ELSE IF ~@.active THEN CallEach(kCheckLastSpokeInterval \div 3)
                ELSE @]

\* audioLevelsUpdated(data) for one update: source ssrc, its level above
\* kSpeakLevelThreshold or not, voice or not.
AudioLevelsUpdated(k, ssrc, loud, voice) ==
    IF ~loud THEN k
    ELSE
    LET was == k.lastSpoke[ssrc]
        third == kCheckLastSpokeInterval \div 3
        checkNow ==
            \/ ~was.in
            \/ was.anything >= third
            \/ voice /\ was.voice >= third
        entry == [in |-> TRUE, anything |-> 0,
                  voice |-> IF voice THEN 0
                            ELSE IF was.in THEN was.voice ELSE third]
        k1 == [k EXCEPT !.lastSpoke[ssrc] = entry]
    IN  IF checkNow THEN CheckLastSpoke(k1)
        ELSE IF ~k1.lastSpokeCheckTimer.active
        THEN [k1 EXCEPT !.lastSpokeCheckTimer =
                            CallEach(kCheckLastSpokeInterval \div 2)]
        ELSE k1

\* ------------------------------------------------- broadcast part tasks
\* No task exists when the session is constructed.
TaskInit ==
    /\ created = {}
    /\ taskDone = [t \in Tasks |-> FALSE]
    /\ taskMutex = [t \in Tasks |-> "free"]
    /\ donePc = [t \in Tasks |-> "idle"]
    /\ doneSaw = [t \in Tasks |-> FALSE]
    /\ cancelPc = [t \in Tasks |-> "idle"]
    /\ mainQueue = <<>>
    /\ requests = {}
    /\ broadcastParts = {}
    /\ callbackCalls = [t \in Tasks |-> 0]
    /\ cancelTook = [t \in Tasks |-> FALSE]
    /\ raced = [t \in Tasks |-> FALSE]

\* QMutexLocker that does not wait.
MutexIgnored(t) == TRUE

\* QMutexLocker lock(&_mutex) returns once nobody holds the mutex.
MutexAvailable(t) == taskMutex[t] = "free"

\* The owner thread runs one handler at a time: no done() is under way.
MainIdle == \A t \in Tasks : donePc[t] \in {"idle", "finished"}

\* requestBroadcastPart, on an engine thread: creates the task with its
\* completion callback and posts broadcastPartStart to the owner thread.
RequestBroadcastPart(t) ==
    /\ t \notin created
    /\ created' = created \cup {t}
    /\ taskDone' = [taskDone EXCEPT ![t] = TRUE]
    /\ mainQueue' = Append(mainQueue, <<"start", t>>)
    /\ UNCHANGED <<taskMutex, donePc, doneSaw, cancelPc, requests,
                   broadcastParts, callbackCalls, cancelTook, raced>>
    /\ UNCHANGED <<sessionVars, otherVars>>

\* broadcastPartStart(task), posted: sends upload.getFile and records the
\* task in _broadcastParts.
BroadcastPartStart ==
    /\ MainIdle
    /\ mainQueue # <<>>
    /\ Head(mainQueue)[1] = "start"
    /\ mainQueue' = Tail(mainQueue)
    /\ requests' = requests \cup {Head(mainQueue)[2]}
    /\ broadcastParts' = broadcastParts \cup {Head(mainQueue)[2]}
    /\ UNCHANGED <<created, taskDone, taskMutex, donePc, doneSaw, cancelPc,
                   callbackCalls, cancelTook, raced>>
    /\ UNCHANGED <<sessionVars, otherVars>>

\* broadcastPartCancel(task), posted by cancel(): cancels the request of a
\* task still in _broadcastParts and erases it.
BroadcastPartCancel ==
    /\ MainIdle
    /\ mainQueue # <<>>
    /\ Head(mainQueue)[1] = "cancel"
    /\ mainQueue' = Tail(mainQueue)
    /\ IF Head(mainQueue)[2] \in broadcastParts
       THEN /\ requests' = requests \ {Head(mainQueue)[2]}
            /\ broadcastParts' = broadcastParts \ {Head(mainQueue)[2]}
       ELSE UNCHANGED <<requests, broadcastParts>>
    /\ UNCHANGED <<created, taskDone, taskMutex, donePc, doneSaw, cancelPc,
                   callbackCalls, cancelTook, raced>>
    /\ UNCHANGED <<sessionVars, otherVars>>

\* The answer to upload.getFile that ends in finish(part): the handler calls
\* raw->done(part), which first waits for the mutex.
PartAnswered(t) ==
    /\ MainIdle
    /\ t \in requests
    /\ requests' = requests \ {t}
    /\ donePc' = [donePc EXCEPT ![t] = "lock"]
    /\ UNCHANGED <<created, taskDone, taskMutex, doneSaw, cancelPc, mainQueue,
                   broadcastParts, callbackCalls, cancelTook, raced>>
    /\ UNCHANGED <<sessionVars, otherVars>>

\* The answer to upload.getFile is GROUPCALL_JOIN_MISSING or
\* GROUPCALL_FORBIDDEN: the request of every entry of _broadcastParts is
\* cancelled (the entries stay, no done() is called), then setState(Joining)
\* and rejoin().
PartFailedRejoin(t) ==
    /\ MainIdle
    /\ t \in requests
    /\ requests' = requests \ ({t} \cup broadcastParts)
    /\ LET s == Rejoin(SetState(Cur, "Joining"))
       IN  /\ Pending(s) <= MaxPending
           /\ CommitSession(s, "other")
    /\ UNCHANGED <<created, taskDone, taskMutex, donePc, doneSaw, cancelPc,
                   mainQueue, broadcastParts, callbackCalls, cancelTook, raced>>
    /\ UNCHANGED otherVars

\* LoadPartTask::done(): the mutex is taken.
DoneLock(t) ==
    /\ donePc[t] = "lock"
    /\ MutexAvailable(t)
    /\ taskMutex' = [taskMutex EXCEPT ![t] = "main"]
    /\ donePc' = [donePc EXCEPT ![t] = "check"]
    /\ raced' = [raced EXCEPT ![t] = @ \/ cancelPc[t] = "lock"]
    /\ UNCHANGED <<created, taskDone, doneSaw, cancelPc, mainQueue, requests,
                   broadcastParts, callbackCalls, cancelTook>>
    /\ UNCHANGED <<sessionVars, otherVars>>

\* LoadPartTask::done(): if (_done).
DoneCheck(t) ==
    /\ donePc[t] = "check"
    /\ doneSaw' = [doneSaw EXCEPT ![t] = taskDone[t]]
    /\ donePc' = [donePc EXCEPT ![t] = "call"]
    /\ UNCHANGED <<created, taskDone, taskMutex, cancelPc, mainQueue, requests,
                   broadcastParts, callbackCalls, cancelTook, raced>>
    /\ UNCHANGED <<sessionVars, otherVars>>

\* LoadPartTask::done(): base::take(_done)(part) when _done was set, the
\* mutex is released; back in finish(), the task leaves _broadcastParts.
DoneCall(t) ==
    /\ donePc[t] = "call"
    /\ IF doneSaw[t]
       THEN /\ taskDone' = [taskDone EXCEPT ![t] = FALSE]
            /\ callbackCalls' = [callbackCalls EXCEPT ![t] = @ + 1]
       ELSE UNCHANGED <<taskDone, callbackCalls>>
    /\ taskMutex' = [taskMutex EXCEPT ![t] = "free"]
    /\ broadcastParts' = broadcastParts \ {t}
    /\ donePc' = [donePc EXCEPT ![t] = "finished"]
    /\ UNCHANGED <<created, doneSaw, cancelPc, mainQueue, requests,
                   cancelTook, raced>>
    /\ UNCHANGED <<sessionVars, otherVars>>

\* The engine calls LoadPartTask::cancel(), which first waits for the mutex.
CancelCalled(t) ==
    /\ t \in created
    /\ cancelPc[t] = "idle"
    /\ cancelPc' = [cancelPc EXCEPT ![t] = "lock"]
    /\ UNCHANGED <<created, taskDone, taskMutex, donePc, doneSaw, mainQueue,
                   requests, broadcastParts, callbackCalls, cancelTook, raced>>
    /\ UNCHANGED <<sessionVars, otherVars>>

\* LoadPartTask::cancel(): the mutex is taken.
CancelLock(t) ==
    /\ cancelPc[t] = "lock"
    /\ MutexAvailable(t)
    /\ taskMutex' = [taskMutex EXCEPT ![t] = "engine"]
    /\ cancelPc' = [cancelPc EXCEPT ![t] = "check"]
    /\ raced' = [raced EXCEPT ![t] = @ \/ donePc[t] = "lock"]
    /\ UNCHANGED <<created, taskDone, donePc, doneSaw, mainQueue, requests,
                   broadcastParts, callbackCalls, cancelTook>>
    /\ UNCHANGED <<sessionVars, otherVars>>

\* LoadPartTask::cancel(): if (!_done) return, releasing the mutex.
CancelCheck(t) ==
    /\ cancelPc[t] = "check"
    /\ IF ~taskDone[t]
       THEN /\ taskMutex' = [taskMutex EXCEPT ![t] = "free"]
            /\ cancelPc' = [cancelPc EXCEPT ![t] = "finished"]
       ELSE /\ cancelPc' = [cancelPc EXCEPT ![t] = "clear"]
            /\ UNCHANGED taskMutex
    /\ UNCHANGED <<created, taskDone, donePc, doneSaw, mainQueue, requests,
                   broadcastParts, callbackCalls, cancelTook, raced>>
    /\ UNCHANGED <<sessionVars, otherVars>>

\* LoadPartTask::cancel(): _done = nullptr; lock.unlock().
CancelClear(t) ==
    /\ cancelPc[t] = "clear"
    /\ taskDone' = [taskDone EXCEPT ![t] = FALSE]
    /\ cancelTook' = [cancelTook EXCEPT ![t] = TRUE]
    /\ taskMutex' = [taskMutex EXCEPT ![t] = "free"]
    /\ cancelPc' = [cancelPc EXCEPT ![t] = "post"]
    /\ UNCHANGED <<created, donePc, doneSaw, mainQueue, requests,
                   broadcastParts, callbackCalls, raced>>
    /\ UNCHANGED <<sessionVars, otherVars>>

\* LoadPartTask::cancel(): crl::on_main posts broadcastPartCancel(this).
CancelPost(t) ==
    /\ cancelPc[t] = "post"
    /\ mainQueue' = Append(mainQueue, <<"cancel", t>>)
    /\ cancelPc' = [cancelPc EXCEPT ![t] = "finished"]
    /\ UNCHANGED <<created, taskDone, taskMutex, donePc, doneSaw, requests,
                   broadcastParts, callbackCalls, cancelTook, raced>>
    /\ UNCHANGED <<sessionVars, otherVars>>

\* ------------------------------------------------------------ construction
\* The constructor for an existing call (_id != 0): join(inputCall).
Constructed(scheduled, mute) ==
    Join([state |-> "Waiting", mySsrc |-> 0, mySsrcs |-> {},
          instance |-> FALSE, instanceMode |-> "None",
          instanceState |-> "Disconnected", instanceTransitioning |-> FALSE,
          scheduleDate |-> scheduled, muted |-> mute,
          initialMuteStateSent |-> FALSE, hadJoinedState |-> FALSE,
          payloadRequests |-> 0, joinRequests |-> <<>>,
          leaveRequests |-> <<>>, updateMuteRequest |-> "none",
          editRequests |-> 0,
          checkJoinedTimer |-> FALSE, checkRequests |-> 0,
          queuedSelfUpdates |-> <<>>, pushToTalkCancelTimer |-> FALSE,
          toast |-> "none", events |-> <<>>])

InitWith(Mutes) ==
    \E scheduled \in BOOLEAN, mute \in Mutes :
        LET s == Constructed(scheduled, mute)
        IN  /\ state = s.state
            /\ mySsrc = s.mySsrc
            /\ mySsrcs = s.mySsrcs
            /\ instance = s.instance
            /\ instanceMode = s.instanceMode
            /\ instanceState = s.instanceState
            /\ instanceTransitioning = s.instanceTransitioning
            /\ scheduleDate = s.scheduleDate
            /\ muted = s.muted
            /\ initialMuteStateSent = s.initialMuteStateSent
            /\ hadJoinedState = s.hadJoinedState
            /\ payloadRequests = s.payloadRequests
            /\ joinRequests = s.joinRequests
            /\ leaveRequests = s.leaveRequests
            /\ updateMuteRequest = s.updateMuteRequest
            /\ editRequests = s.editRequests
            /\ checkJoinedTimer = s.checkJoinedTimer
            /\ checkRequests = s.checkRequests
            /\ queuedSelfUpdates = s.queuedSelfUpdates
            /\ toast = s.toast
            /\ events = s.events
            /\ pushToTalkCancelTimer = s.pushToTalkCancelTimer
            /\ muteAfter = {}
            /\ notifications = 0
            /\ partStatus = [t \in Tasks |-> "none"]
            /\ VideoInit
            /\ SpokeInit
            /\ lastOp = "constructor"
            /\ TaskInit

\* ------------------------------------------------------------------ actions
DoJoinPayloadReady ==
    /\ payloadRequests > 0
    /\ \E ssrc \in Ssrcs : Commit(JoinPayloadReady(Cur, ssrc), "other")

DoJoinDone(D) ==
    \E i \in 1 .. Len(joinRequests), updates \in CarriedUpdates(D) :
        Commit(JoinDoneHandler(Cur, i, updates), "joinDone")

DoJoinFail ==
    \E i \in 1 .. Len(joinRequests), type \in JoinErrors :
        Commit(JoinFailHandler(Cur, i, type), "joinFail")

DoRejoinAs == \E sameJoinAs \in BOOLEAN : Commit(RejoinAs(Cur, sameJoinAs), "other")

DoRejoinWithHash == \E hashEmpty \in BOOLEAN : Commit(RejoinWithHash(Cur, hashEmpty), "other")

DoSetScheduledDate(Dates) ==
    \E date \in Dates : Commit(SetScheduledDate(Cur, date), "other")

DoHangup == Commit(Hangup(Cur), "other")

DoLeaveAnswered ==
    /\ leaveRequests # <<>>
    /\ Commit(LeaveAnswered(Cur), "other")

DoHandleDiscarded == Commit(HandlePossibleDiscarded(Cur), "other")

DoHandleSelfUpdate(D) == \E d \in D : Commit(HandleUpdate(Cur, d), "selfUpdate")

DoConnectionParams ==
    /\ instance
    /\ \E stream \in BOOLEAN : Commit(HandleConnectionParams(Cur, stream), "other")

DoSetInstanceConnected(Transits) ==
    /\ instance
    /\ \E isConnected \in BOOLEAN, inTransit \in Transits :
        Commit(SetInstanceConnected(Cur, isConnected, inTransit), "other")

DoCheckJoined ==
    /\ checkJoinedTimer
    /\ Commit(CheckJoined(Cur), "other")

DoCheckJoinedDone ==
    /\ checkRequests > 0
    /\ \E found \in BOOLEAN :
        /\ (mySsrc = 0 => ~found)
        /\ Commit(CheckJoinedDone(Cur, found), IF found THEN "other" ELSE "rejoin")

DoCheckJoinedFail ==
    /\ checkRequests > 0
    /\ Commit(CheckJoinedFail(Cur), "rejoin")

DoSendSelfUpdateDone ==
    /\ editRequests > 0
    /\ Commit(SendSelfUpdateDone(Cur), "other")

DoSendSelfUpdateFail ==
    /\ editRequests > 0
    /\ \E forbidden \in BOOLEAN : Commit(SendSelfUpdateFail(Cur, forbidden), IF forbidden THEN "rejoin" ELSE "other")

DoEditParticipantFail ==
    \E forbidden \in BOOLEAN :
        Commit(EditParticipantFail(Cur, forbidden),
               IF forbidden THEN "rejoin" ELSE "other")

\* The session with the mute state left alone (Muted throughout).
Init == InitWith({"Muted"})

Next ==
    \/ DoJoinPayloadReady
    \/ DoJoinDone(PlainSelfDeltas)
    \/ DoJoinFail
    \/ DoRejoinAs
    \/ DoSetScheduledDate({FALSE})
    \/ DoHangup
    \/ DoLeaveAnswered
    \/ DoHandleDiscarded
    \/ DoHandleSelfUpdate(PlainSelfDeltas)
    \/ DoSetInstanceConnected({FALSE})
    \/ DoEditParticipantFail

Spec == Init /\ [][Next]_vars

\* ------------------------------------------------------------- properties
\* The states rejoin() is honoured in.
Live == {"Joining", "Joined", "Connecting"}

\* The states finish() leaves alone: hanging up or finished.
HungUp == {"HangingUp", "FailedHangingUp", "Ended", "Failed"}

Duplicate == "GROUPCALL_SSRC_DUPLICATE_MUCH"

\* C1: at any time at most one join attempt is outstanding; a rejoin while the
\* state is Joining and an earlier join is pending does not lead to a second
\* phone.joinGroupCall request in flight.
C1_OneJoinRequest == Len(joinRequests) <= 1

\* C40: hangup() in HangingUp, FailedHangingUp, Ended or Failed changes no
\* state and sends no request, and at most one phone.leaveGroupCall request
\* is outstanding at any time.
C40_HangupIdempotent ==
    [][/\ (DoHangup /\ state \in {"HangingUp", "FailedHangingUp", "Ended", "Failed"})
          => (/\ UNCHANGED <<state, mySsrc, mySsrcs, instance, instanceMode,
                            instanceState, muted, payloadRequests, joinRequests,
                            leaveRequests, updateMuteRequest, editRequests,
                            checkJoinedTimer, checkRequests, queuedSelfUpdates>>
              /\ events' = <<>>)
       /\ Len(leaveRequests') <= 1]_vars

\* C2: Ended and Failed are absorbing, no handler changes the state once it is
\* Ended or Failed.
C2_TerminalAbsorbing ==
    [][(state \in {"Ended", "Failed"}) => (state' = state)]_vars

\* C3: the success response of a superseded join request (a newer join request
\* is in flight behind it) in a session that is not finished changes neither
\* the state nor the local source id.
C3_StaleJoinDropped ==
    [][lastOp' = "joinDone" =>
       \A i \in 1 .. Len(joinRequests),
          updates \in CarriedUpdates(PlainSelfDeltas) :
            (/\ i < Len(joinRequests)
             /\ state \notin {"Ended", "Failed"}
             /\ Commit(JoinDoneHandler(Cur, i, updates), "joinDone"))
            => (state' = state /\ mySsrc' = mySsrc)]_vars

\* C5: rejoin() invoked (by a failed edit of a participant, by a duplicate-source
\* join failure) while the state is Waiting, HangingUp, FailedHangingUp, Ended
\* or Failed leaves the state, the local source id, the connection mode and
\* the outstanding join attempts as they are.
C5_RejoinIgnored ==
    [][/\ (/\ lastOp' = "rejoin"
           /\ state \notin Live
           /\ Commit(EditParticipantFail(Cur, TRUE), "rejoin"))
          => UNCHANGED <<state, mySsrc, instanceMode, payloadRequests,
                         joinRequests>>
       /\ \A i \in 1 .. Len(joinRequests) :
            (/\ lastOp' = "joinFail"
             /\ state \notin Live
             /\ Commit(JoinFailHandler(Cur, i, Duplicate), "joinFail"))
            => /\ UNCHANGED <<state, mySsrc, instanceMode, payloadRequests>>
               /\ joinRequests' = RemoveAt(joinRequests, i)]_vars

\* rejoin() was invoked by the last handler in a state it is not honoured in.
C5_Witness == lastOp = "rejoin" /\ state \in {"Waiting", "HangingUp", "Ended"}

\* C6: a join request succeeding with source id S adds S to the own-source
\* history; when no self delta is queued or carried by the response and the
\* state is not FailedHangingUp or Failed, the local source id becomes S and
\* the state becomes Connecting if the engine reports disconnected, Joined
\* otherwise; a connectivity callback reporting connected in Connecting moves
\* the state to Joined.
C6_JoinSuccess ==
    [][/\ lastOp' = "joinDone" =>
          \A i \in 1 .. Len(joinRequests),
             updates \in CarriedUpdates(PlainSelfDeltas) :
            Commit(JoinDoneHandler(Cur, i, updates), "joinDone")
            => /\ joinRequests[i].ssrc \in mySsrcs'
               /\ (/\ updates = <<>>
                   /\ queuedSelfUpdates = <<>>
                   /\ state \notin {"FailedHangingUp", "Failed"})
                  => /\ mySsrc' = joinRequests[i].ssrc
                     /\ state' = IF instanceState = "Disconnected"
                                 THEN "Connecting" ELSE "Joined"
       /\ (/\ lastOp' = "other"
           /\ state = "Connecting"
           /\ instance
           /\ Commit(SetInstanceConnected(Cur, TRUE, FALSE), "other"))
          => state' = "Joined"]_vars

\* A join request has just succeeded while the engine reports disconnected.
C6_Witness ==
    /\ lastOp = "joinDone"
    /\ state = "Connecting"
    /\ mySsrc \in mySsrcs
    /\ instanceState = "Disconnected"

\* C6 as stated, for responses carrying no self delta: success while the engine
\* reports disconnected leaves the state Connecting and the local source id S.
C6_AsStated ==
    [][lastOp' = "joinDone" =>
       \A i \in 1 .. Len(joinRequests) :
        (/\ instanceState = "Disconnected"
         /\ state = "Joining"
         /\ Commit(JoinDoneHandler(Cur, i, <<>>), "joinDone"))
        => (state' = "Connecting" /\ mySsrc' = joinRequests[i].ssrc)]_vars

\* C7: a join request failing with the duplicate-source error never hangs up
\* and shows no message; while the state is Joining, Joined or Connecting it
\* starts exactly one new join attempt, in any other state it starts none.
C7_DuplicateRetry ==
    [][lastOp' = "joinFail" =>
       \A i \in 1 .. Len(joinRequests) :
        Commit(JoinFailHandler(Cur, i, Duplicate), "joinFail")
        => /\ toast' = "none"
           /\ leaveRequests' = leaveRequests
           /\ (state' \in HungUp => state' = state)
           /\ joinRequests' = RemoveAt(joinRequests, i)
           /\ IF state \in Live
              THEN state' = "Joining" /\ payloadRequests' = payloadRequests + 1
              ELSE payloadRequests' = payloadRequests]_vars

\* A duplicate-source failure has just started a new join attempt.
C7_Witness ==
    /\ lastOp = "joinFail"
    /\ toast = "none"
    /\ state = "Joining"
    /\ payloadRequests > 0

\* C7 as stated: every duplicate-source failure starts exactly one new join
\* attempt, without a hangup or a message.
C7_AsStated ==
    [][lastOp' = "joinFail" =>
       \A i \in 1 .. Len(joinRequests) :
        Commit(JoinFailHandler(Cur, i, Duplicate), "joinFail")
        => /\ payloadRequests' = payloadRequests + 1
           /\ toast' = "none"
           /\ leaveRequests' = leaveRequests]_vars

\* C8: a join request failing with any other error hangs the call up, starts
\* no new join attempt and shows exactly the message of the error's category.
C8_OtherFailureHangsUp ==
    [][lastOp' = "joinFail" =>
       \A i \in 1 .. Len(joinRequests), type \in JoinErrors \ {Duplicate} :
        Commit(JoinFailHandler(Cur, i, type), "joinFail")
        => /\ state' \in HungUp
           /\ payloadRequests' = payloadRequests
           /\ joinRequests' = RemoveAt(joinRequests, i)
           /\ toast' = CASE type = "GROUPCALL_ANONYMOUS_FORBIDDEN"
                             -> "lng_group_call_no_anonymous"
                         [] type = "GROUPCALL_PARTICIPANTS_TOO_MUCH"
                             -> "lng_group_call_too_many"
                         [] type = "GROUPCALL_FORBIDDEN"
                             -> "lng_group_not_accessible"
                         [] OTHER -> "ServerError"]_vars

\* A join failure has just hung the call up with a message.
C8_Witness ==
    /\ lastOp = "joinFail"
    /\ toast # "none"
    /\ state \in {"HangingUp", "Ended"}

\* C10: a left self delta handled while Joined or Connecting triggers a rejoin
\* (state Joining, local source id cleared, a join payload requested) when its
\* source id is the local one, and changes nothing otherwise.
C10_LeftSelfDelta ==
    [][lastOp' = "selfUpdate" =>
       \A d \in PlainSelfDeltas :
        (/\ d.left
         /\ state \in {"Joined", "Connecting"}
         /\ Commit(HandleUpdate(Cur, d), "selfUpdate"))
        => IF d.source = mySsrc
           THEN /\ state' = "Joining"
                /\ mySsrc' = 0
                /\ payloadRequests' = payloadRequests + 1
           ELSE UNCHANGED <<state, mySsrc, mySsrcs, instance, instanceMode,
                            instanceState, instanceTransitioning,
                            scheduleDate, muted, initialMuteStateSent,
                            hadJoinedState, payloadRequests, joinRequests,
                            leaveRequests, updateMuteRequest,
                            checkJoinedTimer, checkRequests,
                            queuedSelfUpdates>>]_vars

\* A self delta handled live (not queued) has just triggered a rejoin.
C10_Witness ==
    /\ lastOp = "selfUpdate"
    /\ state = "Joining"
    /\ mySsrc = 0
    /\ queuedSelfUpdates = <<>>
    /\ payloadRequests > 0

\* The positions of an event in the last handler's events.
EventAt(e) == {k \in 1 .. Len(events) : events[k] = e}

\* C18: on every transition into Ended or Failed the controller is destroyed
\* before the delegate is notified (groupCallFinished / groupCallFailed), and
\* no state with the lifecycle state Ended or Failed has an engine instance.
C18_DestroyBeforeNotify ==
    [][/\ state' \in {"Ended", "Failed"} => ~instance'
       /\ (state' \in {"Ended", "Failed"} /\ state' # state)
          => LET notify == IF state' = "Ended" THEN "groupCallFinished"
                                              ELSE "groupCallFailed"
             IN  \E i, j \in 1 .. Len(events') :
                    /\ i < j
                    /\ events'[i] = "destroyController"
                    /\ events'[j] = notify
                    /\ \A k \in 1 .. i - 1 : events'[k] # notify]_vars

\* A session that had joined (so had an engine instance) has just ended.
C18_Witness ==
    /\ state = "Ended"
    /\ mySsrc # 0
    /\ ~instance
    /\ EventAt("destroyController") # {}
    /\ EventAt("groupCallFinished") # {}

\* C19: hangup() in a state that is not hung up: without a local source id the
\* state goes straight to Ended and no leave request is sent; with one the
\* state goes to HangingUp and exactly one leave request is sent, and the
\* answer (done or fail) to a leave request enters the final state.
C19_HangupLeave ==
    [][/\ (/\ lastOp' = "other"
           /\ state \notin HungUp
           /\ Commit(Hangup(Cur), "other"))
          => IF mySsrc = 0
             THEN /\ state' = "Ended"
                  /\ leaveRequests' = leaveRequests
             ELSE /\ state' = "HangingUp"
                  /\ leaveRequests' = Append(leaveRequests, "Ended")
       /\ (/\ lastOp' = "other"
           /\ leaveRequests # <<>>
           /\ Commit(LeaveAnswered(Cur), "other"))
          => /\ state' = Head(leaveRequests)
             /\ state' \in {"Ended", "Failed"}
             /\ leaveRequests' = Tail(leaveRequests)]_vars

\* hangup() with a local source id has sent the one leave request.
C19_Witness ==
    /\ state = "HangingUp"
    /\ mySsrc # 0
    /\ Len(leaveRequests) = 1
    /\ lastOp = "other"

\* ------------------------------------------- self deltas and source ids
\* The session joining and rejoining with several source ids of its own while
\* self deltas arrive: the engine's payloads name any source id, and two self
\* deltas may wait in the queue behind a join request.
DeltasJoinPayloadReady ==
    /\ payloadRequests > 0
    /\ \E ssrc \in DeltaSsrcs : CommitWide(JoinPayloadReady(Cur, ssrc), "other")

DeltasJoinDone ==
    \E i \in 1 .. Len(joinRequests), updates \in CarriedUpdates(PlainSelfDeltas) :
        CommitWide(JoinDoneHandler(Cur, i, updates), "joinDone")

DeltasHandleSelfUpdate ==
    \E d \in PlainSelfDeltas : CommitWide(HandleUpdate(Cur, d), "selfUpdate")

NextDeltas ==
    \/ DeltasJoinPayloadReady
    \/ DeltasJoinDone
    \/ DeltasHandleSelfUpdate
    \/ DoSetInstanceConnected({FALSE})

SpecDeltas == Init /\ [][NextDeltas]_vars

\* C11: a not-left self delta applied while Joined or Connecting whose source
\* id is not the local one is ignored (state, mute state, local source id
\* unchanged) when the id is in the own-source history; otherwise the call is
\* hung up.
C11_OtherSourceDelta ==
    [][lastOp' = "selfUpdate" =>
       \A d \in PlainSelfDeltas :
        (/\ ~d.left
         /\ d.source # mySsrc
         /\ state \in {"Joined", "Connecting"}
         /\ CommitWide(HandleUpdate(Cur, d), "selfUpdate"))
        => IF d.source \in mySsrcs
           THEN UNCHANGED <<state, muted, mySsrc, mySsrcs, payloadRequests,
                            joinRequests, leaveRequests, queuedSelfUpdates>>
           ELSE /\ state' \in HungUp
                /\ ~instance'
                /\ payloadRequests' = payloadRequests]_vars

\* A not-left self delta naming an earlier source id of this session has just
\* been ignored.
C11_Witness ==
    /\ lastOp = "selfUpdate"
    /\ state \in {"Joined", "Connecting"}
    /\ mySsrc # 0
    /\ mySsrcs # {mySsrc}
    /\ queuedSelfUpdates = <<>>

\* The self deltas of a queue applied one after the other in arrival order
\* for as long as the state is Joined or Connecting; the rest stays queued.
RECURSIVE InArrivalOrder(_, _)
InArrivalOrder(s, queue) ==
    IF queue = <<>> \/ s.state \notin {"Joined", "Connecting"}
    THEN [s EXCEPT !.queuedSelfUpdates = queue]
    ELSE InArrivalOrder(ApplySelfUpdate(s, Head(queue)), Tail(queue))

\* C12: a self delta handled while the state is neither Joined nor Connecting
\* is appended to the queue and changes neither the mute state nor the state;
\* a join success applies the queued self deltas in arrival order.
C12_QueuedThenFifo ==
    [][/\ lastOp' = "selfUpdate" =>
          \A d \in PlainSelfDeltas :
            (/\ state \notin {"Joined", "Connecting"}
             /\ CommitWide(HandleUpdate(Cur, d), "selfUpdate"))
            => /\ queuedSelfUpdates' = Append(queuedSelfUpdates, d)
               /\ UNCHANGED <<state, muted, mySsrc, mySsrcs, payloadRequests,
                              joinRequests, leaveRequests, updateMuteRequest>>
       /\ lastOp' = "joinDone" =>
          \A i \in 1 .. Len(joinRequests) :
            CommitWide(JoinDoneHandler(Cur, i, <<>>), "joinDone")
            => LET r  == joinRequests[i]
                   s0 == [Cur EXCEPT !.joinRequests = RemoveAt(@, i),
                                     !.mySsrc = r.ssrc,
                                     !.mySsrcs = @ \cup {r.ssrc},
                                     !.queuedSelfUpdates = <<>>]
                   s1 == SetState(s0, IF instanceState = "Disconnected"
                                      THEN "Connecting" ELSE "Joined")
                   s2 == InArrivalOrder(s1, queuedSelfUpdates)
               IN  /\ state' = s2.state
                   /\ muted' = s2.muted
                   /\ mySsrc' = s2.mySsrc
                   /\ queuedSelfUpdates' = s2.queuedSelfUpdates
                   /\ payloadRequests' = s2.payloadRequests]_vars

\* A join success has just applied the first of two queued self deltas, a
\* left delta of the source joined with, and left the second one queued.
C12_Witness ==
    /\ lastOp = "joinDone"
    /\ state = "Joining"
    /\ mySsrc = 0
    /\ Len(queuedSelfUpdates) = 1
    /\ payloadRequests = 1

\* C38: a join success applies the self deltas in the order of their
\* arrival: those queued before it first, those it carries after them.
C38_CarriedAfterQueued ==
    [][lastOp' = "joinDone" =>
       \A i \in 1 .. Len(joinRequests),
          updates \in CarriedUpdates(PlainSelfDeltas) :
            CommitWide(JoinDoneHandler(Cur, i, updates), "joinDone")
            => LET r  == joinRequests[i]
                   s0 == [Cur EXCEPT !.joinRequests = RemoveAt(@, i),
                                     !.mySsrc = r.ssrc,
                                     !.mySsrcs = @ \cup {r.ssrc},
                                     !.queuedSelfUpdates = <<>>]
                   s1 == SetState(s0, IF instanceState = "Disconnected"
                                      THEN "Connecting" ELSE "Joined")
                   s2 == InArrivalOrder(s1, queuedSelfUpdates \o updates)
               IN  /\ state' = s2.state
                   /\ muted' = s2.muted
                   /\ mySsrc' = s2.mySsrc
                   /\ queuedSelfUpdates' = s2.queuedSelfUpdates
                   /\ payloadRequests' = s2.payloadRequests]_vars

\* --------------------------------------------------------- mute state
\* A step of the session with the mute state in play.
MuteStep(s, op) ==
    /\ Pending(s) <= MaxPending
    /\ CommitSession(s, op)
    /\ UNCHANGED <<taskVars, otherVars>>

MuteJoinPayloadReady ==
    /\ payloadRequests > 0
    /\ \E ssrc \in Ssrcs : MuteStep(JoinPayloadReady(Cur, ssrc), "other")

MuteJoinDone ==
    \E i \in 1 .. Len(joinRequests) :
        MuteStep(JoinDoneHandler(Cur, i, <<>>), "joinDone")

\* handleUpdate for a self delta that reaches a live session (the queue of a
\* session that is not live is followed in SpecDeltas); the flags of the first
\* one applied under the local source id are remembered with the result.
MuteHandleSelfUpdate ==
    \E d \in OwnSelfDeltas :
        LET s == HandleUpdate(Cur, d)
            applied == d.source = mySsrc
        IN  /\ state \in {"Joined", "Connecting"}
            /\ Pending(s) <= MaxPending
            /\ CommitSession(s, "selfUpdate")
            /\ muteAfter' = IF applied /\ muteAfter = {}
                            THEN {[flags |-> FlagsOf(d), muted |-> s.muted]}
                            ELSE muteAfter
            /\ UNCHANGED <<taskVars, videoVars, spokeVars, notifications,
                           partStatus>>

MuteConnectionParams ==
    /\ instance
    /\ \E stream \in BOOLEAN : MuteStep(HandleConnectionParams(Cur, stream), "other")

MuteSetMuted == \E mute \in MuteStates : MuteStep(SetMuted(Cur, mute), "local")

MuteSetMutedAndUpdate ==
    \E mute \in MuteStates : MuteStep(SetMutedAndUpdate(Cur, mute), "local")

MutePushToTalk ==
    \E pressed, delay \in BOOLEAN :
        MuteStep(PushToTalk(Cur, pressed, delay), "local")

MutePushToTalkCancel ==
    /\ pushToTalkCancelTimer
    /\ MuteStep(PushToTalkCancel(Cur), "local")

NextMute ==
    \/ MuteJoinPayloadReady
    \/ MuteJoinDone
    \/ MuteHandleSelfUpdate
    \/ MuteConnectionParams
    \/ MuteSetMuted
    \/ MuteSetMutedAndUpdate
    \/ MutePushToTalk
    \/ MutePushToTalkCancel

SpecMute == InitWith({"Muted", "ForceMuted"}) /\ [][NextMute]_vars

\* C13: with the queue drained (a live session), the mute state after a self
\* delta of the local source is decided by the delta's muted / can-self-unmute
\* / raise-hand flags alone: a later delta with the same flags gives the mute
\* state the first one gave.
C13_MuteByLatestDelta ==
    [][lastOp' = "selfUpdate" =>
       \A d \in OwnSelfDeltas :
        (/\ state \in {"Joined", "Connecting"}
         /\ d.source = mySsrc
         /\ CommitSession(HandleUpdate(Cur, d), "selfUpdate"))
        => \A first \in muteAfter :
            first.flags = FlagsOf(d) => first.muted = muted']_vars

\* C14: no local operation (setMuted, setMutedAndUpdate, pushToTalk,
\* pushToTalkCancel) moves the mute state from ForceMuted or RaisedHand to
\* Active, Muted or PushToTalk.
C14_ForcedMuteKept ==
    [][(lastOp' = "local" /\ muted \in {"ForceMuted", "RaisedHand"})
        => muted' \in {"ForceMuted", "RaisedHand"}]_vars

\* The changes of the mute state an edit-self request is sent for.
SentChanges ==
    {<<"Active", "Muted">>, <<"Muted", "Active">>,
     <<"Active", "PushToTalk">>, <<"PushToTalk", "Active">>}

SentHandChanges ==
    {<<"ForceMuted", "RaisedHand">>, <<"RaisedHand", "ForceMuted">>}

EditSetMutedAndUpdate ==
    /\ editRequests <= MaxPending
    /\ \E mute \in MuteStates : Commit(SetMutedAndUpdate(Cur, mute), "local")

NextEdit ==
    \/ DoJoinPayloadReady
    \/ DoJoinDone({})
    \/ EditSetMutedAndUpdate
    \/ DoSendSelfUpdateDone
    \/ DoSendSelfUpdateFail

SpecEdit == Init /\ [][NextEdit]_vars

\* C21: at most one edit-self request is in flight, and _updateMuteRequestId
\* is 0 exactly when none is.
C21_OneEditRequest ==
    /\ editRequests <= 1
    /\ (updateMuteRequest = "none") <=> (editRequests = 0)

\* The join success handler has just sent two self updates, the second one
\* while the first was in flight.
C21_Witness ==
    /\ lastOp = "joinDone"
    /\ Len(events) = 2
    /\ editRequests = 1

\* The kind of the edit-self request in flight just before the k-th event
\* of the handler that made the step, "none" if there is none.
InFlightBefore(k) ==
    LET sends == {j \in 1 .. k - 1 : events'[j] \in SendUpdateTypes}
    IN  IF sends = {} THEN updateMuteRequest
        ELSE events'[CHOOSE j \in sends : \A i \in sends : i <= j]

\* C35: a video-muted update sent while a mute or raise-hand update is in
\* flight leaves that update in flight, so that two requests are in flight
\* after the handler.
C35_OtherKindKept ==
    [][\A k \in 1 .. Len(events') :
        (/\ events'[k] = "VideoMuted"
         /\ InFlightBefore(k) \in {"Mute", "RaiseHand"})
        => (editRequests' >= 2)]_vars

\* ------------------------------------------------ check-joined watchdog
\* _checkJoinedTimer fires.
WatchCheckJoined ==
    /\ checkJoinedTimer
    /\ Commit(CheckJoined(Cur), "checkJoined")

\* phone.checkGroupCall is answered; the answer can hold the source id the
\* session has now only if it has one.
WatchCheckJoinedDone(found) ==
    /\ checkRequests > 0
    /\ mySsrc = 0 => ~found
    /\ Commit(CheckJoinedDone(Cur, found), "checkDone")

WatchCheckJoinedFail ==
    /\ checkRequests > 0
    /\ Commit(CheckJoinedFail(Cur), "checkFail")

NextWatch ==
    \/ DoJoinPayloadReady
    \/ DoJoinDone({})
    \/ DoSetInstanceConnected({FALSE})
    \/ WatchCheckJoined
    \/ \E found \in BOOLEAN : WatchCheckJoinedDone(found)
    \/ WatchCheckJoinedFail

\* The single-shot timer fires once armed and the server answers a request
\* in flight; nothing makes the engine report that it is connected.
FairSpecWatch ==
    /\ Init
    /\ [][NextWatch]_vars
    /\ WF_vars(WatchCheckJoined)
    /\ WF_vars((\E found \in BOOLEAN : WatchCheckJoinedDone(found))
                    \/ WatchCheckJoinedFail)

\* The watchdog next to hangup, to the answer of the leave request, to
\* rejoinAs and to the deltas of the local participant.
NextWatchAll ==
    \/ NextWatch
    \/ DoHangup
    \/ DoLeaveAnswered
    \/ DoRejoinAs
    \/ DoHandleSelfUpdate(PlainSelfDeltas)

SpecWatch == Init /\ [][NextWatchAll]_vars

\* C37: between handlers, a session in Connecting with a local source id
\* has the check-joined timer armed or a phone.checkGroupCall request in
\* flight.
C37_ConnectingWatched ==
    (state = "Connecting" /\ mySsrc # 0)
        => (checkJoinedTimer \/ checkRequests > 0)

\* The timer has fired in Connecting: its request is in flight, the timer
\* is not armed.
C37_Witness ==
    /\ lastOp = "checkJoined"
    /\ state = "Connecting"
    /\ mySsrc # 0
    /\ ~checkJoinedTimer
    /\ checkRequests = 1

\* C22, as amended: while the state is Connecting the watchdog is armed or
\* one of its phone.checkGroupCall requests is in flight; the timer firing in
\* Connecting sends one such request and leaves the state alone; an answer
\* without the local source id, or a failed request, forces a rejoin of a
\* live session (state Joining, source id 0, one more join payload asked
\* for); an answer with the source id received in Connecting leaves the
\* state Connecting and arms the timer again.
C22_WatchdogChecks ==
    /\ [](state = "Connecting" => (checkJoinedTimer \/ checkRequests > 0))
    /\ [][
           /\ (WatchCheckJoined /\ state = "Connecting")
              => (/\ state' = "Connecting"
                  /\ checkRequests' = checkRequests + 1
                  /\ ~checkJoinedTimer')
           /\ ((WatchCheckJoinedDone(FALSE) \/ WatchCheckJoinedFail)
                    /\ state \in {"Joining", "Joined", "Connecting"})
              => (/\ state' = "Joining"
                  /\ mySsrc' = 0
                  /\ payloadRequests' = payloadRequests + 1)
           /\ (WatchCheckJoinedDone(TRUE) /\ state = "Connecting")
              => (state' = "Connecting" /\ checkJoinedTimer')]_vars

\* The server has confirmed the source id of a session that is still
\* Connecting after the timeout: the watchdog is armed again, no rejoin.
C22_Witness ==
    /\ lastOp = "checkDone"
    /\ state = "Connecting"
    /\ checkJoinedTimer
    /\ mySsrc # 0
    /\ payloadRequests = 0

\* C22 as stated: a session that enters Connecting gets its connectivity
\* confirmed (Joined) or is made to rejoin (Joining).
C22_AsStated == (state = "Connecting") ~> (state \in {"Joined", "Joining"})

\* ------------------------------------------- notifying the delegate
\* The groupCallFinished / groupCallFailed calls a handler made.
Notified(s) ==
    Cardinality({k \in 1 .. Len(s.events) :
                    s.events[k] \in {"groupCallFinished", "groupCallFailed"}})

\* A step of the session with the delegate's notifications counted; the
\* session is followed until the second one.
NotifyStep(s, op) ==
    /\ notifications < 2
    /\ Pending(s) <= MaxPending
    /\ CommitSession(s, op)
    /\ notifications' = notifications + Notified(s)
    /\ UNCHANGED <<taskVars, muteAfter, videoVars, spokeVars, partStatus>>

NotifyJoinPayloadReady ==
    /\ payloadRequests > 0
    /\ \E ssrc \in Ssrcs : NotifyStep(JoinPayloadReady(Cur, ssrc), "other")

NotifyJoinDone ==
    \E i \in 1 .. Len(joinRequests) :
        NotifyStep(JoinDoneHandler(Cur, i, <<>>), "joinDone")

NotifyJoinFail ==
    \E i \in 1 .. Len(joinRequests), type \in JoinErrors :
        NotifyStep(JoinFailHandler(Cur, i, type), "joinFail")

NotifyRejoinAs ==
    \E sameJoinAs \in BOOLEAN : NotifyStep(RejoinAs(Cur, sameJoinAs), "other")

NotifySetScheduledDate == NotifyStep(SetScheduledDate(Cur, FALSE), "other")

NotifyHangup == NotifyStep(Hangup(Cur), "other")

NotifyLeaveAnswered ==
    /\ leaveRequests # <<>>
    /\ NotifyStep(LeaveAnswered(Cur), "other")

NextNotify ==
    \/ NotifyJoinPayloadReady
    \/ NotifyJoinDone
    \/ NotifyJoinFail
    \/ NotifyRejoinAs
    \/ NotifySetScheduledDate
    \/ NotifyHangup
    \/ NotifyLeaveAnswered

SpecNotify == Init /\ [][NextNotify]_vars

\* C23: the delegate is told of a terminal state (groupCallFinished or
\* groupCallFailed) at most once in the life of a session.
C23_NotifiedOnce == notifications <= 1

\* ------------------------------------------------------- rejoin() alone
NextRejoin ==
    \/ DoJoinPayloadReady
    \/ DoJoinDone({})
    \/ DoConnectionParams
    \/ DoSetInstanceConnected({FALSE})
    \/ DoEditParticipantFail
    \/ DoHangup
    \/ DoLeaveAnswered

SpecRejoin == Init /\ [][NextRejoin]_vars

\* C25: a step of a handler that only calls rejoin() (the forbidden failure
\* of an edit request), taken in Joining, Joined or Connecting, ends with
\* source id 0, state Joining, an engine instance, connection mode None and
\* one more join payload requested.
C25_AfterRejoin ==
    [][(/\ lastOp' = "rejoin"
        /\ state \in {"Joining", "Joined", "Connecting"})
        => (/\ mySsrc' = 0
            /\ state' = "Joining"
            /\ instance'
            /\ instanceMode' = "None"
            /\ payloadRequests' = payloadRequests + 1)]_vars

\* A rejoin of a session that had joined and had a connection mode.
C25_Witness ==
    /\ lastOp = "rejoin"
    /\ hadJoinedState
    /\ state = "Joining"
    /\ mySsrc = 0
    /\ mySsrcs # {}
    /\ instanceMode = "None"
    /\ payloadRequests = 1

\* C36: between handlers the local source id is not 0 in Joined and in
\* Connecting, and is 0 in Waiting and in Joining.
C36_SsrcMatchesState ==
    /\ (state \in {"Joined", "Connecting"}) => (mySsrc # 0)
    /\ (state \in {"Waiting", "Joining"}) => (mySsrc = 0)

\* A session that had joined is rejoining.
C36_Witness ==
    /\ lastOp = "rejoin"
    /\ state = "Joining"
    /\ mySsrc = 0
    /\ mySsrcs # {}

\* ------------------------------------------------ finishing as failed
\* finish(type) with either type.
FailFinish == \E type \in {"Ended", "Failed"} : Commit(Finish(Cur, type), "finish")

FailRejoinAs ==
    \E sameJoinAs \in BOOLEAN : Commit(RejoinAs(Cur, sameJoinAs), "rejoinAs")

FailSetInstanceConnected(isConnected, inTransit) ==
    /\ instance
    /\ Commit(SetInstanceConnected(Cur, isConnected, inTransit), "connected")

NextFail ==
    \/ DoJoinPayloadReady
    \/ DoJoinDone({})
    \/ FailFinish
    \/ DoLeaveAnswered
    \/ FailRejoinAs
    \/ DoSetScheduledDate({FALSE})
    \/ \E isConnected, inTransit \in BOOLEAN :
        FailSetInstanceConnected(isConnected, inTransit)
    \/ DoHandleSelfUpdate(PlainSelfDeltas)

SpecFail == Init /\ [][NextFail]_vars

\* C24: from FailedHangingUp the state changes to Failed only: whatever asks
\* for another state leaves it FailedHangingUp.
C24_FailedHangingUpKept ==
    [][(state = "FailedHangingUp")
        => (state' \in {"FailedHangingUp", "Failed"})]_vars

\* rejoinAs, which calls setState(Joining), has run in FailedHangingUp.
C24_Witness ==
    /\ lastOp = "rejoinAs"
    /\ state = "FailedHangingUp"
    /\ Len(leaveRequests) = 1

\* C26: a connectivity callback takes Connecting to Joined when it reports
\* a connection and Joined to Connecting when it reports none; in every
\* other state it leaves the state as it was; in every state the reported
\* connectivity is the recorded one afterwards.
C26_ConnectivityCallback ==
    [][\A isConnected, inTransit \in BOOLEAN :
        FailSetInstanceConnected(isConnected, inTransit)
        => (/\ (state = "Connecting" /\ isConnected) => (state' = "Joined")
            /\ (state = "Joined" /\ ~isConnected) => (state' = "Connecting")
            /\ (state \notin {"Joined", "Connecting"}) => (state' = state)
            /\ (state' # state)
                => (<<state, state'>> \in {<<"Joined", "Connecting">>,
                                           <<"Connecting", "Joined">>})
            /\ instanceState' = (IF ~isConnected THEN "Disconnected"
                                 ELSE IF inTransit THEN "TransitionToRtc"
                                 ELSE "Connected")
            /\ instanceTransitioning' = inTransit)]_vars

\* The engine reported a connection while the session was hanging up.
C26_Witness ==
    /\ lastOp = "connected"
    /\ state = "HangingUp"
    /\ instanceState = "Connected"

\* ------------------------------------------- being allowed to speak
\* A delta of the local participant that is applied at once.
SpeakHandleSelfUpdate(d) ==
    /\ state \in {"Joined", "Connecting"}
    /\ Commit(HandleUpdate(Cur, d), "selfUpdate")

NextSpeak ==
    \/ DoJoinPayloadReady
    \/ DoJoinDone({})
    \/ DoConnectionParams
    \/ DoSetInstanceConnected(BOOLEAN)
    \/ \E d \in OwnSelfDeltas : SpeakHandleSelfUpdate(d)

SpecSpeak == InitWith({"Muted", "ForceMuted"}) /\ [][NextSpeak]_vars

ForcedMute(d) == d.muted /\ ~d.canSelfUnmute

AllowedToSpeakFired(e) == \E k \in 1 .. Len(e) : e[k] = "allowedToSpeak"

\* C27: a self delta with the current local source id that is muted without
\* the permission to unmute gives RaisedHand when it carries a raise-hand
\* rating and ForceMuted otherwise; a delta without that condition, outside
\* the stream mode and in ForceMuted / RaisedHand, gives Muted, and the
\* allowed-to-speak notification fires only if the session has been Joined
\* (exactly: if it has been Joined and the engine is not in transition).
\* _hadJoinedState is set exactly by the first entry into Joined.
C27_SelfDeltaMute ==
    /\ [][\A d \in OwnSelfDeltas :
            (SpeakHandleSelfUpdate(d) /\ d.source = mySsrc)
            => (/\ ForcedMute(d)
                    => (muted' = IF d.raiseHand THEN "RaisedHand"
                                 ELSE "ForceMuted")
                /\ (/\ ~ForcedMute(d)
                    /\ instanceMode # "Stream"
                    /\ muted \in {"ForceMuted", "RaisedHand"})
                    => (/\ muted' = "Muted"
                        /\ AllowedToSpeakFired(events') => hadJoinedState
                        /\ AllowedToSpeakFired(events')
                            <=> (hadJoinedState
                                 /\ ~instanceTransitioning)))]_vars
    /\ [][/\ (state' = "Joined") => hadJoinedState'
          /\ hadJoinedState => hadJoinedState'
          /\ (hadJoinedState' /\ ~hadJoinedState) => (state' = "Joined")]_vars

\* The forced mute was lifted in a session that had joined.
C27_Witness ==
    /\ lastOp = "selfUpdate"
    /\ muted = "Muted"
    /\ AllowedToSpeakFired(events)

\* C28: in the stream mode a self delta with the current local source id
\* that lifts the forced mute (ForceMuted / RaisedHand, delta not muted
\* without the permission to unmute) makes the session rejoin: the state is
\* Joining, the source id 0, a join payload is requested, and the mute
\* state is the one before the delta.
C28_StreamRejoin ==
    [][\A d \in OwnSelfDeltas :
        (/\ SpeakHandleSelfUpdate(d)
         /\ d.source = mySsrc
         /\ instanceMode = "Stream"
         /\ muted \in {"ForceMuted", "RaisedHand"}
         /\ ~ForcedMute(d))
        => (/\ state' = "Joining"
            /\ mySsrc' = 0
            /\ payloadRequests' = payloadRequests + 1
            /\ muted' = muted)]_vars

\* The rejoin after such a delta: still ForceMuted / RaisedHand.
C28_Witness ==
    /\ lastOp = "selfUpdate"
    /\ state = "Joining"
    /\ mySsrc = 0
    /\ muted \in {"ForceMuted", "RaisedHand"}
    /\ payloadRequests = 1

\* C39: a self delta with the current local source id, not left and not a
\* forced mute, applied while the mute state is Active, Muted or PushToTalk,
\* leaves the lifecycle state as it was, whatever the connection mode.
C39_NoRejoinWhenAllowed ==
    [][\A d \in OwnSelfDeltas :
        (/\ SpeakHandleSelfUpdate(d)
         /\ d.source = mySsrc
         /\ ~d.left
         /\ ~ForcedMute(d)
         /\ muted \in {"Active", "Muted", "PushToTalk"})
        => (state' = state)]_vars

\* ------------------------------------------- broadcast parts of a stream
PartsJoinPayloadReady ==
    /\ payloadRequests > 0
    /\ \E ssrc \in Ssrcs : Commit(JoinPayloadReady(Cur, ssrc), "other")

PartsJoinDone ==
    \E i \in 1 .. Len(joinRequests) :
        Commit(JoinDoneHandler(Cur, i, <<>>), "joinDone")

\* The connection parameters of a joined session say the call is streamed.
PartsConnectionParams ==
    /\ instance
    /\ state \in {"Joined", "Connecting"}
    /\ Commit(HandleConnectionParams(Cur, TRUE), "other")

\* The engine asks for parts while it is in Stream mode.
PartsRequest ==
    /\ instance
    /\ instanceMode = "Stream"
    /\ \E t \in Tasks : RequestBroadcastPart(t)

NextParts ==
    \/ PartsJoinPayloadReady
    \/ PartsJoinDone
    \/ PartsConnectionParams
    \/ PartsRequest
    \/ BroadcastPartStart
    \/ \E t \in Tasks : PartAnswered(t)
    \/ \E t \in Tasks : PartFailedRejoin(t)
    \/ \E t \in Tasks : DoneLock(t)
    \/ \E t \in Tasks : DoneCheck(t)
    \/ \E t \in Tasks : DoneCall(t)

SpecParts == Init /\ [][NextParts]_vars

\* ------------------------------------------- the status of a part
\* What upload.getFile can be answered with, the two errors that make the
\* session rejoin apart.
PartAnswers == {"file", "fileCdnRedirect", "flood", "TIME_TOO_BIG", "other"}

\* The status finish() is called with, always ResyncNeeded.
PartStatusResync(answer) == "ResyncNeeded"

\* The status finish() is called with for an answer.
PartStatus(answer) ==
    IF answer = "file" THEN "Success"
    ELSE IF answer = "fileCdnRedirect" THEN "ResyncNeeded"
    ELSE IF answer \in {"flood", "TIME_TOO_BIG"} THEN "NotReady"
    ELSE "ResyncNeeded"

\* The done / fail handler of upload.getFile ending in finish(part), as one
\* step: raw->done(part), which calls the callback if it is still set, and
\* _broadcastParts.erase(raw).
PartFinished(t, answer) ==
    /\ MainIdle
    /\ t \in requests
    /\ MutexAvailable(t)
    /\ requests' = requests \ {t}
    /\ broadcastParts' = broadcastParts \ {t}
    /\ IF taskDone[t]
       THEN /\ taskDone' = [taskDone EXCEPT ![t] = FALSE]
            /\ callbackCalls' = [callbackCalls EXCEPT ![t] = @ + 1]
            /\ partStatus' = [partStatus EXCEPT ![t] = PartStatus(answer)]
       ELSE UNCHANGED <<taskDone, callbackCalls, partStatus>>
    /\ UNCHANGED <<created, taskMutex, donePc, doneSaw, cancelPc, mainQueue,
                   cancelTook, raced>>
    /\ UNCHANGED <<sessionVars, muteAfter, videoVars, spokeVars, notifications>>

NextStatus ==
    \/ \E t \in Tasks : RequestBroadcastPart(t)
    \/ BroadcastPartStart
    \/ BroadcastPartCancel
    \/ \E t \in Tasks, answer \in PartAnswers : PartFinished(t, answer)
    \/ \E t \in Tasks : CancelCalled(t)
    \/ \E t \in Tasks : CancelLock(t)
    \/ \E t \in Tasks : CancelCheck(t)
    \/ \E t \in Tasks : CancelClear(t)
    \/ \E t \in Tasks : CancelPost(t)

SpecStatus == Init /\ [][NextStatus]_vars

\* C33: a fetch answered with a flood or a too-early error gives its task
\* the status NotReady, one answered with another error (join-missing and
\* forbidden apart) or with a CDN redirect the status ResyncNeeded, one
\* answered with the file the status Success; the callback of a task that
\* was not cancelled is called once with that status, and in each case the
\* task is no longer in _broadcastParts and its request no longer in flight.
C33_PartStatus ==
    [][\A t \in Tasks, answer \in PartAnswers :
        PartFinished(t, answer)
        => /\ t \notin broadcastParts'
           /\ t \notin requests'
           /\ taskDone[t]
               => /\ callbackCalls'[t] = callbackCalls[t] + 1
                  /\ answer \in {"flood", "TIME_TOO_BIG"}
                      => partStatus'[t] = "NotReady"
                  /\ answer \in {"other", "fileCdnRedirect"}
                      => partStatus'[t] = "ResyncNeeded"
                  /\ answer = "file" => partStatus'[t] = "Success"]_vars

\* One task got NotReady and another one Success.
C33_Witness ==
    /\ broadcastParts = {}
    /\ \E t, u \in Tasks :
        /\ partStatus[t] = "NotReady" /\ callbackCalls[t] = 1
        /\ partStatus[u] = "Success" /\ callbackCalls[u] = 1

\* C34: a task is held in _broadcastParts only while its request is in
\* flight or the handler of its answer is running, and a task that was
\* started and is no longer held has had its callback called or has been
\* cancelled.
C34_NoTaskLeftBehind ==
    \A t \in Tasks :
        /\ (t \in broadcastParts)
            => (t \in requests \/ donePc[t] \in {"lock", "check", "call"})
        /\ (t \in created /\ t \notin broadcastParts /\ donePc[t] = "finished")
            => (callbackCalls[t] = 1 \/ cancelTook[t])

\* C15: when the fetch of a part fails with join-missing or forbidden, no
\* fetch stays outstanding (no request in flight, no task registered in
\* _broadcastParts) and the session is rejoining in state Joining.
C15_AllFetchesCancelled ==
    [][(\E t \in Tasks : PartFailedRejoin(t))
        => (/\ requests' = {}
            /\ broadcastParts' = {}
            /\ state' = "Joining"
            /\ payloadRequests' = payloadRequests + 1)]_vars

\* ------------------------------------------------------ video streams
CommitVideo(v) ==
    /\ videoStreamSsrcs' = v.videoStreamSsrcs
    /\ videoMuted' = v.videoMuted
    /\ videoStreamLarge' = v.videoStreamLarge
    /\ videoStreamPinned' = v.videoStreamPinned
    /\ real' = v.real
    /\ participants' = v.participants
    /\ UNCHANGED <<sessionVars, taskVars, muteAfter, spokeVars, notifications,
                   partStatus>>

\* The engine reports the set of sources that stream video.
DoSetVideoStreams(ssrcs) == CommitVideo(SetVideoStreams(VideoCur, ssrcs))

DoPinVideoStream ==
    \E ssrc \in {0} \cup VideoSsrcs : CommitVideo(PinVideoStream(VideoCur, ssrc))

\* The call of the peer becomes, or stops being, the call of this session.
DoLookupReal == CommitVideo([VideoCur EXCEPT !.real = ~@])

\* A participant joins, leaves or changes its flags in the roster.
DoParticipantUpdated ==
    \E ssrc \in VideoSsrcs, now \in {Absent} \cup Participant :
        /\ real
        /\ now # participants[ssrc]
        /\ now.speaking => now.sounding
        /\ CommitVideo(ParticipantUpdated(VideoCur, ssrc, participants[ssrc], now))

NextVideo ==
    \/ \E ssrcs \in SUBSET VideoSsrcs : DoSetVideoStreams(ssrcs)
    \/ DoPinVideoStream
    \/ DoLookupReal
    \/ DoParticipantUpdated

SpecVideo == Init /\ [][NextVideo]_vars

\* The sources of ssrcs with the best claim to the large slot: the speaking
\* ones if any, else the sounding ones, else all that are in the roster and
\* not video-muted.
BestStreaming(ssrcs) ==
    LET cand == {x \in ssrcs : x \notin videoMuted /\ InRoster(VideoCur, x)}
        voice == {x \in cand : IsSpeaking(VideoCur, x)}
        anything == {x \in cand : IsSounding(VideoCur, x)}
    IN  IF voice # {} THEN voice
        ELSE IF anything # {} THEN anything
        ELSE cand

\* C16: when setVideoStreams reports a streaming set without the pinned
\* source, the pin is cleared and the large source becomes a speaking, else
\* sounding, else any source among those that are streaming now and not
\* video-muted (none when there is no such source), never the source that
\* has just stopped streaming.
C16_PinnedStopped ==
    [][\A ssrcs \in SUBSET VideoSsrcs :
        (/\ real
         /\ videoStreamPinned # 0
         /\ videoStreamPinned \notin ssrcs
         /\ DoSetVideoStreams(ssrcs))
        => /\ videoStreamPinned' = 0
           /\ videoStreamLarge' # videoStreamPinned
           /\ IF BestStreaming(ssrcs) = {} THEN videoStreamLarge' = 0
              ELSE videoStreamLarge' \in BestStreaming(ssrcs)]_vars

\* The tracked sources of v that are not video-muted and belong to a
\* participant of the roster.
Candidates(v) ==
    {x \in v.videoStreamSsrcs : x \notin v.videoMuted /\ InRoster(v, x)}

\* ssrc is a right answer of the choice of the large source in v.
RightChoice(v, ssrc) ==
    LET cand == Candidates(v)
        voice == {x \in cand : IsSpeaking(v, x)}
        anything == {x \in cand : IsSounding(v, x)}
    IN  IF ~v.real \/ cand = {} THEN ssrc = 0
        ELSE IF voice # {} THEN ssrc \in voice
        ELSE IF anything # {} THEN ssrc \in anything
        ELSE ssrc \in cand

\* C29: chooseLargeVideoSsrc returns a tracked source that is not video-muted
\* and belongs to a roster participant: one whose participant speaks if
\* there is one, else one whose participant sounds if there is one, else any
\* of them; it returns 0 if there is none or the call is not known. This
\* holds of its result in every state, and of the large source that
\* setVideoStreams stores when it has no large source to keep.
C29_LargeChoice ==
    /\ [](RightChoice(VideoCur, ChooseLargeVideoSsrc(VideoCur)))
    /\ [][\A ssrcs \in SUBSET VideoSsrcs :
            (/\ DoSetVideoStreams(ssrcs)
             /\ (videoStreamLarge = 0 \/ videoStreamLarge \notin ssrcs))
            => RightChoice(VideoCur', videoStreamLarge')]_vars

\* The second source is large because its participant speaks, the first
\* one, tracked and in the roster too, is silent.
C29_Witness ==
    /\ real
    /\ videoStreamPinned = 0
    /\ videoStreamLarge = 2
    /\ Candidates(VideoCur) = {1, 2}
    /\ IsSpeaking(VideoCur, 2)
    /\ ~IsSounding(VideoCur, 1)
    /\ ChooseLargeVideoSsrc(VideoCur) = 2

\* The update of ssrc to now leaves its speaking, sounding and video-muted
\* flags as they are.
SameFlags(ssrc, now) ==
    LET was == participants[ssrc]
    IN  /\ (was.present /\ was.videoMuted) = (now.present /\ now.videoMuted)
        /\ (was.present /\ was.speaking) = (now.present /\ now.speaking)
        /\ (was.present /\ was.sounding) = (now.present /\ now.sounding)

\* The step is the participantUpdated handler for ssrc becoming now.
UpdateStep(ssrc, now) ==
    /\ real
    /\ now # participants[ssrc]
    /\ CommitVideo(ParticipantUpdated(VideoCur, ssrc, participants[ssrc], now))

C32_TrackedIsReported ==
    [][\A ssrcs \in SUBSET VideoSsrcs :
        DoSetVideoStreams(ssrcs)
        => /\ videoStreamSsrcs' = ssrcs
           /\ (videoStreamLarge' # 0)
               => (/\ videoStreamLarge' \in ssrcs
                   /\ videoStreamLarge' \notin videoMuted')]_vars

\* C30: while a pin is set the large source is the pinned one, and the pin
\* is cleared only by pinVideoStream(0) or by a setVideoStreams whose set
\* lacks the pinned source.
C30_PinnedIsLarge ==
    /\ [](videoStreamPinned # 0 => videoStreamLarge = videoStreamPinned)
    /\ [][(videoStreamPinned # 0 /\ videoStreamPinned' = 0)
          => \/ CommitVideo(PinVideoStream(VideoCur, 0))
             \/ \E ssrcs \in SUBSET VideoSsrcs :
                    /\ videoStreamPinned \notin ssrcs
                    /\ DoSetVideoStreams(ssrcs)]_vars

\* ------------------------------------------------- last spoke times
CommitSpoke(k) ==
    /\ lastSpoke' = k.lastSpoke
    /\ lastSpokeCheckTimer' = k.lastSpokeCheckTimer
    /\ applyLastSpokeCalls' = k.applyLastSpokeCalls
    /\ UNCHANGED <<sessionVars, taskVars, muteAfter, videoVars, notifications,
                   partStatus>>

\* The engine reports an audio level.
DoAudioLevelsUpdated ==
    \E ssrc \in SpokeSsrcs, loud, voice \in BOOLEAN :
        CommitSpoke(AudioLevelsUpdated(SpokeCur, ssrc, loud, voice))

\* _lastSpokeCheckTimer is due and runs checkLastSpoke(), then counts its
\* period again if it was not cancelled.
DoLastSpokeCheckTimer ==
    /\ lastSpokeCheckTimer.active
    /\ lastSpokeCheckTimer.left = 0
    /\ LET k == CheckLastSpoke(SpokeCur)
       IN  CommitSpoke(
            IF k.lastSpokeCheckTimer.active
            THEN [k EXCEPT !.lastSpokeCheckTimer.left = k.lastSpokeCheckTimer.period]
            ELSE k)

\* crl::now() moves on by one step.
SpokeTick ==
    CommitSpoke(
        [SpokeCur EXCEPT
            !.lastSpoke =
                [x \in SpokeSsrcs |->
                    IF @[x].in
                    THEN [@[x] EXCEPT !.anything = OlderAnything(@),
                                      !.voice = OlderVoice(@)]
                    ELSE @[x]],
            !.lastSpokeCheckTimer.left =
                IF @ > TimeStep THEN @ - TimeStep ELSE 0])

NextSpoke ==
    \/ DoAudioLevelsUpdated
    \/ DoLastSpokeCheckTimer
    \/ SpokeTick

\* The clock moves on and a due timer of the main loop runs.
FairSpecSpoke ==
    /\ Init
    /\ [][NextSpoke]_vars
    /\ WF_vars(SpokeTick)
    /\ WF_vars(DoLastSpokeCheckTimer)

\* The source has an entry whose last sample is older than the interval.
Stale(x) == lastSpoke[x].in /\ lastSpoke[x].anything > kCheckLastSpokeInterval

NextJoin ==
    \/ DoJoinPayloadReady
    \/ DoJoinDone(PlainSelfDeltas)
    \/ DoJoinFail
    \/ DoHandleSelfUpdate(PlainSelfDeltas)
    \/ DoSetInstanceConnected({FALSE})

FairSpec ==
    /\ Init
    /\ [][NextJoin]_vars
    /\ WF_vars(DoJoinPayloadReady)
    /\ WF_vars(DoJoinDone(PlainSelfDeltas) \/ DoJoinFail)

\* A duplicate-source failure has just started a new join attempt.
RetryStarted ==
    /\ lastOp = "joinFail"
    /\ toast = "none"
    /\ state = "Joining"
    /\ payloadRequests > 0

\* C9: whatever the server answers, the automatic join retries are finitely
\* many: from some point on no duplicate-source failure starts a new attempt.
C9_RetriesFinite == <>[](~RetryStarted)

\* ------------------------------------------- broadcast part tasks, threads
NextTask ==
    \/ \E t \in Tasks : RequestBroadcastPart(t)
    \/ BroadcastPartStart
    \/ BroadcastPartCancel
    \/ \E t \in Tasks : PartAnswered(t)
    \/ \E t \in Tasks : DoneLock(t)
    \/ \E t \in Tasks : DoneCheck(t)
    \/ \E t \in Tasks : DoneCall(t)
    \/ \E t \in Tasks : CancelCalled(t)
    \/ \E t \in Tasks : CancelLock(t)
    \/ \E t \in Tasks : CancelCheck(t)
    \/ \E t \in Tasks : CancelClear(t)
    \/ \E t \in Tasks : CancelPost(t)

SpecTask == Init /\ [][NextTask]_vars

\* C4: for one broadcast part task the completion callback runs at most once,
\* never after cancel() has cancelled the task, and once done() and cancel()
\* have both returned exactly one of them has taken effect: the callback ran
\* and cancel() did nothing, or cancel() cancelled and the callback never
\* ran.
C4_DoneOrCancel ==
    \A t \in Tasks :
        /\ callbackCalls[t] <= 1
        /\ ~(callbackCalls[t] = 1 /\ cancelTook[t])
        /\ (donePc[t] = "finished" /\ cancelPc[t] = "finished")
            => ((callbackCalls[t] = 1) # cancelTook[t])
        /\ (callbackCalls[t] = 1 /\ cancelPc[t] = "finished")
            => <<"cancel", t>> \notin {mainQueue[k] : k \in 1 .. Len(mainQueue)}

\* done() and cancel() of one task have contended for the mutex and both have
\* returned.
C4_Witness ==
    \E t \in Tasks :
        /\ raced[t]
        /\ donePc[t] = "finished"
        /\ cancelPc[t] = "finished"

====
